---- MODULE Spec2Model ----
(***************************************************************************)
(* Model of the WSL remote kernel session of crates/repl                   *)
(* (src/crates/repl/src/kernels/wsl_kernel.rs), of the PdfStore of         *)
(* crates/project (src/crates/project/src/pdf_store.rs) and of the         *)
(* PdfViewer (src/crates/pdf_viewer/src/pdf_viewer.rs).                    *)
(*                                                                         *)
(* The specifications of this module:                                      *)
(*   SpecLaunch     : one launch, WslRunningKernel::new, from the return of *)
(*                    peek_ports to the return of its async block.          *)
(*   SpecDiscovery  : one call of wsl_kernel_specifications.                *)
(*   SpecPorts      : peek_ports, the five binds to port 0.                 *)
(*   SpecCmd        : the construction of the spawned wsl command line.     *)
(*   Spec           : a launched WslRunningKernel: the outbound queue, the  *)
(*                    routing / shell / control / iopub / delivery tasks,   *)
(*                    force_shutdown and Drop.                              *)
(*   SpecSupervised : Spec together with the supervisor task;               *)
(*   SpecSupervisedFair adds the fairness of the executor.                  *)
(*   SpecLifecycle  : the wsl process, the process-exit monitor,            *)
(*                    force_shutdown and Drop, with failing kill / remove.  *)
(*   SpecStdio      : the process, its stdout / stderr pipes and the two    *)
(*                    drain tasks.                                          *)
(*   SpecFields     : execution_state and kernel_info with their setters.   *)
(*   SpecSession    : every background task of the launch, the setters and  *)
(*                    force_shutdown, on small inputs.                      *)
(*   SpecStall      : the request path with a kernel that may leave shell   *)
(*                    requests unanswered, with the fairness of the         *)
(*                    executor.                                             *)
(*   SpecStore      : PdfStore: calls of open_pdf, their loads, the release *)
(*                    of PdfItems.                                          *)
(*   SpecViewer     : PdfViewer: the actions of the user and the ends of    *)
(*                    the page renders;                                     *)
(*   SpecViewerFair : a user who stops at some moment, and renders that     *)
(*                    all end.                                              *)
(* Each specification moves its own variables and leaves the others at      *)
(* their initial values.                                                    *)
(***************************************************************************)
EXTENDS Integers, Sequences, FiniteSets, TLC

(***************************************************************************)
(* Bounds of the model.                                                    *)
(***************************************************************************)
\* messages the outbound queue accepts
MaxMsgs == 2
\* request_tx() clones handed out
MaxClones == 1
\* messages the kernel publishes on iopub
MaxIopub == 1
\* calls of force_shutdown
MaxShutdownCalls == 2
\* buffer of every mpsc channel (100 in the code), scaled down
ChannelBuffer == 0
\* TCP ports of the local address the OS may hand out
MaxPort == 6
\* length of a kernelspec argv
MaxArgv == 3
\* most distros the enumeration lists
MaxDistros == 3
\* lines the child process writes to each of stdout and stderr
MaxLines == 2
\* different KernelInfoReply messages the consumer passes to set_kernel_info
MaxInfoReplies == 2
\* messages the outbound queue accepts in SpecSession
MaxSessionMsgs == 1
\* lines the child process writes to stderr in SpecSession
MaxSessionLines == 1
\* messages the outbound queue accepts in SpecStall
MaxStallMsgs == 4
\* project paths of PDF files
MaxPdfPaths == 2
\* calls of PdfStore::open_pdf
MaxOpenCalls == 3
\* pages of a PDF document
MaxPages == 3
\* zoom steps above and below 1.0 (MAX_ZOOM and MIN_ZOOM scaled down)
ZoomRange == 1
\* values of render_generation above 0
MaxGeneration == 1
\* page renders in flight
MaxRenders == 3

(***************************************************************************)
(* Program constants.                                                      *)
(***************************************************************************)
\* peek_ports fills a [u16; 5]
NumPorts == 5

VARIABLES
    \* ---- peek_ports ----
    ports,          \* the ports read back so far, in slot order
    listener,       \* the port the live TcpListener of this iteration holds, 0 if none
    peekPc,         \* peek_ports: "loop", "ok" (returned Ok(ports)) or "err"
    \* ---- command construction ----
    argv,           \* kernelspec.argv, each argument a sequence of text pieces
    specEnv,        \* kernelspec.env: None or Some(set of <<k, v>>)
    wslWd,          \* wsl_working_directory: None or Some(path)
    cmd,            \* the arguments given to the wsl command so far
    cmdPc,          \* position in the construction
    \* ---- running kernel ----
    submitted,      \* content variant of every message the outbound queue accepted
    requestQ,       \* request_rx: ids (indices of submitted) awaiting the routing task
    queueClosed,    \* close_channel() was called on request_tx
    clones,         \* request_tx() clones: when each was taken
    rejected,       \* sender handles one of whose sends failed
    routing,        \* routing task: [pc, msg]
    forwards,       \* ids the routing task sent into each channel's request queue
    chanQ,          \* control_request / shell_request queues
    chanTask,       \* control task and shell task: [pc, msg, wrote]
    sockLog,        \* ids written to the control / shell socket
    replies,        \* ids of the replies read from the control / shell socket
    replyQ,         \* control_reply / shell_reply queues
    iopubTask,      \* iopub task
    iopubRead,      \* messages read from the iopub socket
    routed,         \* calls of session.route, per origin
    lostDeliveries, \* messages whose session.update_in failed, per origin
    supervised,     \* supervised tasks whose completion the supervisor has seen
    reports,        \* calls of session.kernel_errored, per message
    proc,           \* the child process
    monitor,        \* process_status_task
    shutdownCalls,  \* calls of force_shutdown so far
    kernelDropped,  \* the WslRunningKernel was dropped
    dropSteps,      \* outcome of the steps of Drop
    fileExists,     \* the connection file is on disk
    windowOpen,     \* the window of the session still exists
    faults,         \* what the environment makes fail: "kill", "remove"
    panicked,       \* a panic happened
    \* ---- stdout / stderr of the child process ----
    pipe,           \* per stream: the lines written and not yet read
    written,        \* per stream: lines the process has written so far
    drain,          \* per stream: the drain task
    logged,         \* per stream: lines the drain task has logged
    \* ---- fields of WslRunningKernel the consumer sets ----
    executionState, \* self.execution_state
    kernelInfo,     \* self.kernel_info: None or Some(reply)
    \* ---- PdfStore (crates/project/src/pdf_store.rs) ----
    pdfs_by_path,   \* PdfStore.pdfs_by_path: path -> None or Some(PdfId)
    opened_pdfs,    \* PdfStore.opened_pdfs: the ids that have a WeakEntity<PdfItem>
    pdfItems,       \* the PdfItem entities created so far, by id: [path, alive]
    openCalls,      \* the calls of open_pdf so far: [path, pc, result]
    \* ---- PdfViewer (crates/pdf_viewer/src/pdf_viewer.rs) ----
    pageCount,      \* pdf_item.metadata.page_count
    viewer,         \* the fields of the PdfViewer
    renders,        \* the page renders in flight: [page, generation, scale_factor, copy]
    userActive,     \* the user has not stopped issuing actions
    \* ---- launch (WslRunningKernel::new) ----
    launchPc,       \* position in the async block of new
    outcome,        \* result of each fallible step of the launch so far
    sockets,        \* the iopub / shell / control client connections
    attempts,       \* calls of create_client_*_connection, per socket
    started,        \* background tasks spawned by the launch
    \* ---- discovery (wsl_kernel_specifications) ----
    discPc,         \* position in wsl_kernel_specifications
    enumerated,     \* how the enumeration `wsl -l -q` ended
    distros,        \* the distro names parsed from the output of `wsl -l -q`
    queries,        \* per distro: the state of its kernelspec query task
    discResult      \* what wsl_kernel_specifications returned

portVars == <<ports, listener, peekPc>>
cmdVars == <<argv, specEnv, wslWd, cmd, cmdPc>>
queueVars == <<submitted, requestQ, queueClosed, clones, rejected>>
taskVars == <<routing, forwards, chanQ, chanTask, sockLog, replies, replyQ, iopubTask, iopubRead,
              routed, lostDeliveries, supervised>>
lifeVars == <<reports, proc, monitor, shutdownCalls,
              kernelDropped, dropSteps, fileExists, windowOpen, faults, panicked>>
kernelVars == <<queueVars, taskVars, lifeVars>>
launchVars == <<launchPc, outcome, sockets, attempts, started>>
discVars == <<discPc, enumerated, distros, queries, discResult>>
stdioVars == <<pipe, written, drain, logged>>
fieldVars == <<executionState, kernelInfo>>
storeVars == <<pdfs_by_path, opened_pdfs, pdfItems, openCalls>>
viewerVars == <<pageCount, viewer, renders, userActive>>
pdfVars == <<storeVars, viewerVars>>
vars == <<portVars, cmdVars, kernelVars, launchVars, discVars, stdioVars, fieldVars, pdfVars>>

\* the variables no step of the message tasks, of the process and its monitor,
\* or of the owner of the kernel changes
restVars == <<portVars, cmdVars, launchVars, discVars, stdioVars, fieldVars, pdfVars>>

(***************************************************************************)
(* peek_ports                                                              *)
(***************************************************************************)
PortPool == 1..MaxPort

\* What TcpListener::bind(ip, 0) may return: any port no live listener holds.
OsFreePorts == PortPool \ {listener}

InitPorts ==
    /\ ports = <<>>
    /\ listener = 0
    /\ peekPc = "loop"

\* let listener = TcpListener::bind(addr_zeroport).await?; ports[i] = addr.port()
PeekBind ==
    /\ peekPc = "loop"
    /\ listener = 0
    /\ Len(ports) < NumPorts
    /\ \E p \in OsFreePorts :
          /\ listener' = p
          /\ ports' = Append(ports, p)
    /\ UNCHANGED peekPc

\* the bind or local_addr fails: `?` returns the error
PeekBindFail ==
    /\ peekPc = "loop"
    /\ listener = 0
    /\ Len(ports) < NumPorts
    /\ peekPc' = "err"
    /\ UNCHANGED <<ports, listener>>

\* end of the loop body: `listener` goes out of scope and the port is released
PeekRelease ==
    /\ peekPc = "loop"
    /\ listener # 0
    /\ listener' = 0
    /\ UNCHANGED <<ports, peekPc>>

\* Ok(ports)
PeekReturn ==
    /\ peekPc = "loop"
    /\ listener = 0
    /\ Len(ports) = NumPorts
    /\ peekPc' = "ok"
    /\ UNCHANGED <<ports, listener>>

NextPorts ==
    /\ (PeekBind \/ PeekBindFail \/ PeekRelease \/ PeekReturn)
    /\ UNCHANGED <<pdfVars, cmdVars, kernelVars, stdioVars, fieldVars, launchVars, discVars>>

(***************************************************************************)
(* The running kernel: messages and channels                               *)
(***************************************************************************)
\* JupyterMessageContent variants: the three the routing task names, and two of
\* the variants that fall under its `_` arm.
ControlKinds == {"DebugRequest", "InterruptRequest", "ShutdownRequest"}
OtherKinds == {"ExecuteRequest", "KernelInfoRequest"}
Kinds == ControlKinds \cup OtherKinds

Channels == {"control", "shell"}
Origins == {"control", "shell", "iopub"}
TaskNames == {"iopub task", "shell task", "control task", "routing task"}

\* Route with the ShutdownRequest arm missing from the match
RouteWithoutShutdownArm(kind) ==
    IF kind \in {"DebugRequest", "InterruptRequest"}
    THEN "control"
    ELSE "shell"

\* the match on message.content of the routing task
Route(kind) ==
    IF kind \in {"DebugRequest", "InterruptRequest", "ShutdownRequest"}
    THEN "control"
    ELSE "shell"

\* futures::channel::mpsc::channel(buffer): the buffer and one guaranteed slot
\* for each sender. The routing task is the one sender of a request channel, a
\* channel task the one sender of its reply channel.
ChanCap == ChannelBuffer + 1
\* The senders of the outbound queue that send are the request_tx() clones: the
\* kernel's own request_tx is only ever cloned and closed.
RequestCap == ChannelBuffer + Len(clones)

\* request_rx is gone: the routing task ended and dropped it
ReceiverDropped == routing.pc \in {"done", "failed"}

\* the sender handles producers hold: the i-th clone request_tx() returned
Handles == 1..Len(clones)

ShutdownCalled == shutdownCalls > 0

Ended(pc) == pc \in {"done", "failed"}

\* with_name(name, task): the state of the task the supervisor awaits under `name`
TaskPc(name) ==
    CASE name = "iopub task" -> iopubTask
      [] name = "shell task" -> chanTask["shell"].pc
      [] name = "control task" -> chanTask["control"].pc
      [] name = "routing task" -> routing.pc

\* format!("handling failed for {name}: {err}")
TaskFailureMsg(name) ==
    CASE name = "iopub task" -> "handling failed for iopub task"
      [] name = "shell task" -> "handling failed for shell task"
      [] name = "control task" -> "handling failed for control task"
      [] name = "routing task" -> "handling failed for routing task"

\* format!("kernel process exited with status: {:?}", status)
StatusMsg(status) ==
    CASE status = "exitedFail" -> "kernel process exited with status: failure"
      [] status = "killed" -> "kernel process exited with status: killed"
      [] status = "exitedOk" -> "kernel process exited with status: success"

WaitErrorMsg == "kernel process exited with error"

ReportMsgs ==
    {TaskFailureMsg(t) : t \in TaskNames}
        \cup {StatusMsg(st) : st \in {"exitedFail", "killed", "exitedOk"}}
        \cup {WaitErrorMsg}

\* session.kernel_errored(message, cx)
KernelErrored(msg) == [reports EXCEPT ![msg] = @ + 1]

InitKernel ==
    /\ submitted = <<>>
    /\ requestQ = <<>>
    /\ queueClosed = FALSE
    /\ clones = <<>>
    /\ rejected = {}
    /\ routing = [pc |-> "recv", msg |-> 0]
    /\ forwards = [c \in Channels |-> <<>>]
    /\ chanQ = [c \in Channels |-> <<>>]
    /\ chanTask = [c \in Channels |-> [pc |-> "recv", msg |-> 0, wrote |-> FALSE]]
    /\ sockLog = [c \in Channels |-> <<>>]
    /\ replies = [c \in Channels |-> <<>>]
    /\ replyQ = [c \in Channels |-> <<>>]
    /\ iopubTask = "loop"
    /\ iopubRead = 0
    /\ routed = [o \in Origins |-> <<>>]
    /\ lostDeliveries = [o \in Origins |-> <<>>]
    /\ supervised = {}
    /\ reports = [m \in ReportMsgs |-> 0]
    /\ proc = "running"
    /\ monitor = "waiting"
    /\ shutdownCalls = 0
    /\ kernelDropped = FALSE
    /\ dropSteps = [remove |-> "none", close |-> "none", kill |-> "none"]
    /\ fileExists = TRUE
    /\ windowOpen = TRUE
    /\ faults = {}
    /\ panicked = FALSE

(***************************************************************************)
(* The outbound queue and its producers                                    *)
(***************************************************************************)
\* RunningKernel::request_tx: self.request_tx.clone()
CloneSender ==
    /\ ~kernelDropped
    /\ Len(clones) < MaxClones
    /\ clones' = Append(clones, IF ShutdownCalled THEN "after" ELSE "before")
    /\ UNCHANGED <<submitted, requestQ, queueClosed, rejected>>
    /\ UNCHANGED <<taskVars, lifeVars>>

\* Submit pushing the oldest queued message out when the queue is full
SubmitOverwritesWhenFull(h, k) ==
    /\ h \in Handles
    /\ IF queueClosed \/ ReceiverDropped
       THEN /\ rejected' = rejected \cup {h}
            /\ UNCHANGED <<submitted, requestQ>>
       ELSE /\ Len(submitted) < MaxMsgs
            /\ submitted' = Append(submitted, k)
            /\ requestQ' = Append(IF Len(requestQ) < RequestCap
                                  THEN requestQ
                                  ELSE Tail(requestQ),
                                  Len(submitted) + 1)
            /\ UNCHANGED rejected
    /\ UNCHANGED <<queueClosed, clones>>
    /\ UNCHANGED <<taskVars, lifeVars>>

\* a send of a message of content variant k on sender handle h: it fails on a
\* channel that was closed or whose receiver was dropped, is accepted while
\* the queue has room, and is suspended (no step) while the queue is full
SubmitWithin(h, k, max) ==
    /\ h \in Handles
    /\ IF queueClosed \/ ReceiverDropped
       THEN /\ rejected' = rejected \cup {h}
            /\ UNCHANGED <<submitted, requestQ>>
       ELSE /\ Len(submitted) < max
            /\ Len(requestQ) < RequestCap
            /\ submitted' = Append(submitted, k)
            /\ requestQ' = Append(requestQ, Len(submitted) + 1)
            /\ UNCHANGED rejected
    /\ UNCHANGED <<queueClosed, clones>>
    /\ UNCHANGED <<taskVars, lifeVars>>

\* a send of at most MaxMsgs messages in all
Submit(h, k) == SubmitWithin(h, k, MaxMsgs)

(***************************************************************************)
(* routing task                                                            *)
(***************************************************************************)
\* request_rx.next().await yields Some(message)
RoutingRecv ==
    /\ routing.pc = "recv"
    /\ requestQ # <<>>
    /\ routing' = [pc |-> "send", msg |-> Head(requestQ)]
    /\ requestQ' = Tail(requestQ)
    /\ UNCHANGED <<submitted, queueClosed, clones, rejected>>
    /\ UNCHANGED <<forwards, chanQ, chanTask, sockLog, replies, replyQ, iopubTask, iopubRead,
                   routed, lostDeliveries, supervised>>
    /\ UNCHANGED lifeVars

\* RoutingEnd that leaves the loop as soon as the channel is closed, with
\* messages still queued
RoutingEndDropsQueued ==
    /\ routing.pc = "recv"
    /\ queueClosed
    /\ routing' = [pc |-> "done", msg |-> 0]
    /\ UNCHANGED queueVars
    /\ UNCHANGED <<forwards, chanQ, chanTask, sockLog, replies, replyQ, iopubTask, iopubRead,
                   routed, lostDeliveries, supervised>>
    /\ UNCHANGED lifeVars

\* request_rx.next().await yields None: the channel is closed and drained
RoutingEnd ==
    /\ routing.pc = "recv"
    /\ requestQ = <<>>
    /\ queueClosed
    /\ routing' = [pc |-> "done", msg |-> 0]
    /\ UNCHANGED queueVars
    /\ UNCHANGED <<forwards, chanQ, chanTask, sockLog, replies, replyQ, iopubTask, iopubRead,
                   routed, lostDeliveries, supervised>>
    /\ UNCHANGED lifeVars

\* control_request_tx.send(message).await? / shell_request_tx.send(message).await?
\* The send fails when the receiving task has ended, and waits while the
\* channel is full.
\* A failed send ends the routing task: request_rx is dropped, and what is
\* still in requestQ is never taken.
RoutingSend ==
    /\ routing.pc = "send"
    /\ LET ch == Route(submitted[routing.msg]) IN
         IF Ended(chanTask[ch].pc)
         THEN /\ routing' = [pc |-> "failed", msg |-> routing.msg]
              /\ UNCHANGED <<forwards, chanQ>>
         ELSE /\ Len(chanQ[ch]) < ChanCap
              /\ chanQ' = [chanQ EXCEPT ![ch] = Append(@, routing.msg)]
              /\ forwards' = [forwards EXCEPT ![ch] = Append(@, routing.msg)]
              /\ routing' = [pc |-> "recv", msg |-> 0]
    /\ UNCHANGED queueVars
    /\ UNCHANGED <<chanTask, sockLog, replies, replyQ, iopubTask, iopubRead,
                   routed, lostDeliveries, supervised>>
    /\ UNCHANGED lifeVars

(***************************************************************************)
(* shell task and control task                                             *)
(***************************************************************************)
\* shell_request_rx.next().await yields Some(message)
ChanRecv(ch) ==
    /\ chanTask[ch].pc = "recv"
    /\ chanQ[ch] # <<>>
    /\ chanTask' = [chanTask EXCEPT ![ch] =
                        [pc |-> "write", msg |-> Head(chanQ[ch]), wrote |-> FALSE]]
    /\ chanQ' = [chanQ EXCEPT ![ch] = Tail(@)]
    /\ UNCHANGED queueVars
    /\ UNCHANGED <<routing, forwards, sockLog, replies, replyQ, iopubTask, iopubRead,
                   routed, lostDeliveries, supervised>>
    /\ UNCHANGED lifeVars

\* shell_request_rx.next().await yields None: the routing task has ended and
\* dropped its senders, and the queue is drained
ChanEnd(ch) ==
    /\ chanTask[ch].pc = "recv"
    /\ chanQ[ch] = <<>>
    /\ Ended(routing.pc)
    /\ chanTask' = [chanTask EXCEPT ![ch] = [pc |-> "done", msg |-> 0, wrote |-> FALSE]]
    /\ UNCHANGED queueVars
    /\ UNCHANGED <<routing, forwards, chanQ, sockLog, replies, replyQ, iopubTask, iopubRead,
                   routed, lostDeliveries, supervised>>
    /\ UNCHANGED lifeVars

\* ChanWrite going back to the request queue without reading the reply
ChanWriteWithoutRead(ch) ==
    /\ chanTask[ch].pc = "write"
    /\ \E ok \in BOOLEAN :
          /\ sockLog' = [sockLog EXCEPT ![ch] =
                            IF ok THEN Append(@, chanTask[ch].msg) ELSE @]
          /\ chanTask' = [chanTask EXCEPT ![ch] =
                            [pc |-> "recv", msg |-> 0, wrote |-> FALSE]]
    /\ UNCHANGED queueVars
    /\ UNCHANGED <<routing, forwards, chanQ, replies, replyQ, iopubTask, iopubRead,
                   routed, lostDeliveries, supervised>>
    /\ UNCHANGED lifeVars

\* shell_socket.send(message).await.ok(): the result of the write is discarded
ChanWrite(ch) ==
    /\ chanTask[ch].pc = "write"
    /\ \E ok \in BOOLEAN :
          /\ sockLog' = [sockLog EXCEPT ![ch] =
                            IF ok THEN Append(@, chanTask[ch].msg) ELSE @]
          /\ chanTask' = [chanTask EXCEPT ![ch] =
                            [pc |-> "read", msg |-> chanTask[ch].msg, wrote |-> ok]]
    /\ UNCHANGED queueVars
    /\ UNCHANGED <<routing, forwards, chanQ, replies, replyQ, iopubTask, iopubRead,
                   routed, lostDeliveries, supervised>>
    /\ UNCHANGED lifeVars

\* let reply = shell_socket.read().await?  -- Ok(reply): the kernel answers the
\* requests it received, one reply each, in order
ChanRead(ch) ==
    /\ chanTask[ch].pc = "read"
    /\ chanTask[ch].wrote
    /\ chanTask' = [chanTask EXCEPT ![ch].pc = "fwd"]
    /\ replies' = [replies EXCEPT ![ch] = Append(@, chanTask[ch].msg)]
    /\ UNCHANGED queueVars
    /\ UNCHANGED <<routing, forwards, chanQ, sockLog, replyQ, iopubTask, iopubRead,
                   routed, lostDeliveries, supervised>>
    /\ UNCHANGED lifeVars

\* let reply = shell_socket.read().await?  -- Err: the task ends, dropping its
\* request receiver with whatever is still queued
ChanReadFail(ch) ==
    /\ chanTask[ch].pc = "read"
    /\ chanTask' = [chanTask EXCEPT ![ch].pc = "failed"]
    /\ chanQ' = [chanQ EXCEPT ![ch] = <<>>]
    /\ UNCHANGED queueVars
    /\ UNCHANGED <<routing, forwards, sockLog, replies, replyQ, iopubTask, iopubRead,
                   routed, lostDeliveries, supervised>>
    /\ UNCHANGED lifeVars

\* shell_reply_tx.send(reply).await?  (the delivery task holds the receiver for
\* as long as a reply sender lives, so the send waits but does not fail)
ChanForward(ch) ==
    /\ chanTask[ch].pc = "fwd"
    /\ Len(replyQ[ch]) < ChanCap
    /\ replyQ' = [replyQ EXCEPT ![ch] = Append(@, chanTask[ch].msg)]
    /\ chanTask' = [chanTask EXCEPT ![ch] = [pc |-> "recv", msg |-> 0, wrote |-> FALSE]]
    /\ UNCHANGED queueVars
    /\ UNCHANGED <<routing, forwards, chanQ, sockLog, replies, iopubTask, iopubRead,
                   routed, lostDeliveries, supervised>>
    /\ UNCHANGED lifeVars

(***************************************************************************)
(* delivery task and iopub task                                            *)
(***************************************************************************)
\* session.update_in(cx, |session, window, cx| session.route(&message, ..)).ok():
\* route is called when the window still exists, the error is discarded otherwise
RouteToSession(origin, m) ==
    IF windowOpen
    THEN /\ routed' = [routed EXCEPT ![origin] = Append(@, m)]
         /\ UNCHANGED lostDeliveries
    ELSE /\ lostDeliveries' = [lostDeliveries EXCEPT ![origin] = Append(@, m)]
         /\ UNCHANGED routed

\* Deliver handing the oldest reply of the stream to route without taking it
\* from the stream
DeliverWithoutDequeue(ch) ==
    /\ replyQ[ch] # <<>>
    /\ RouteToSession(ch, Head(replyQ[ch]))
    /\ UNCHANGED replyQ
    /\ UNCHANGED queueVars
    /\ UNCHANGED <<routing, forwards, chanQ, chanTask, sockLog, replies, iopubTask,
                   iopubRead, supervised>>
    /\ UNCHANGED lifeVars

\* while let Some(message) = messages_rx.next().await { ... route ... }
\* messages_rx is the SelectAll of control_reply_rx and shell_reply_rx
Deliver(ch) ==
    /\ replyQ[ch] # <<>>
    /\ RouteToSession(ch, Head(replyQ[ch]))
    /\ replyQ' = [replyQ EXCEPT ![ch] = Tail(@)]
    /\ UNCHANGED queueVars
    /\ UNCHANGED <<routing, forwards, chanQ, chanTask, sockLog, replies, iopubTask, iopubRead,
                   supervised>>
    /\ UNCHANGED lifeVars

\* the delivery task has left its loop: both reply streams are finished
DeliveryEnded ==
    \A ch \in Channels : Ended(chanTask[ch].pc) /\ replyQ[ch] = <<>>

\* IopubDeliver with `?` on the result of update_in instead of .ok()
IopubDeliverPropagates ==
    /\ iopubTask = "loop"
    /\ iopubRead < MaxIopub
    /\ iopubRead' = iopubRead + 1
    /\ RouteToSession("iopub", iopubRead + 1)
    /\ iopubTask' = IF windowOpen THEN iopubTask ELSE "failed"
    /\ UNCHANGED queueVars
    /\ UNCHANGED <<routing, forwards, chanQ, chanTask, sockLog, replies, replyQ,
                   supervised>>
    /\ UNCHANGED lifeVars

\* loop { let message = iopub_socket.read().await?; ... route ... }  -- Ok(message)
IopubDeliver ==
    /\ iopubTask = "loop"
    /\ iopubRead < MaxIopub
    /\ iopubRead' = iopubRead + 1
    /\ RouteToSession("iopub", iopubRead + 1)
    /\ UNCHANGED queueVars
    /\ UNCHANGED <<routing, forwards, chanQ, chanTask, sockLog, replies, replyQ, iopubTask,
                   supervised>>
    /\ UNCHANGED lifeVars

\* iopub_socket.read().await?  -- Err
IopubFail ==
    /\ iopubTask = "loop"
    /\ iopubTask' = "failed"
    /\ UNCHANGED queueVars
    /\ UNCHANGED <<routing, forwards, chanQ, chanTask, sockLog, replies, replyQ, iopubRead,
                   routed, lostDeliveries, supervised>>
    /\ UNCHANGED lifeVars

(***************************************************************************)
(* supervisor                                                              *)
(***************************************************************************)
\* Supervise leaving its loop at the first task that ended with an error
SuperviseFirstFailureOnly(name) ==
    /\ name \in TaskNames \ supervised
    /\ Ended(TaskPc(name))
    /\ supervised' = IF TaskPc(name) = "failed" THEN TaskNames ELSE supervised \cup {name}
    /\ reports' = IF TaskPc(name) = "failed"
                  THEN KernelErrored(TaskFailureMsg(name))
                  ELSE reports
    /\ UNCHANGED queueVars
    /\ UNCHANGED <<routing, forwards, chanQ, chanTask, sockLog, replies, replyQ, iopubTask,
                   iopubRead, routed, lostDeliveries>>
    /\ UNCHANGED <<proc, monitor, shutdownCalls, kernelDropped,
                   dropSteps, fileExists, windowOpen, faults, panicked>>

\* while let Some((name, result)) = tasks.next().await {
\*     if let Err(err) = result { session.kernel_errored(..) } }
Supervise(name) ==
    /\ name \in TaskNames \ supervised
    /\ Ended(TaskPc(name))
    /\ supervised' = supervised \cup {name}
    /\ reports' = IF TaskPc(name) = "failed"
                  THEN KernelErrored(TaskFailureMsg(name))
                  ELSE reports
    /\ UNCHANGED queueVars
    /\ UNCHANGED <<routing, forwards, chanQ, chanTask, sockLog, replies, replyQ, iopubTask,
                   iopubRead, routed, lostDeliveries>>
    /\ UNCHANGED <<proc, monitor, shutdownCalls, kernelDropped,
                   dropSteps, fileExists, windowOpen, faults, panicked>>

SupervisorEnded == supervised = TaskNames

(***************************************************************************)
(* the child process and the process-exit monitor                          *)
(***************************************************************************)
\* the kernel process ends by itself, with a success or a failure status
ProcExit(status) ==
    /\ proc = "running"
    /\ status \in {"exitedOk", "exitedFail"}
    /\ proc' = status
    /\ UNCHANGED <<queueVars, taskVars>>
    /\ UNCHANGED <<reports, monitor, shutdownCalls, kernelDropped,
                   dropSteps, fileExists, windowOpen, faults, panicked>>

\* MonitorExit without the success test: every exit is reported
MonitorExitReportsSuccess ==
    /\ monitor = "waiting"
    /\ proc # "running"
    /\ monitor' = "done"
    /\ reports' = KernelErrored(StatusMsg(proc))
    /\ UNCHANGED <<queueVars, taskVars>>
    /\ UNCHANGED <<proc, shutdownCalls, kernelDropped,
                   dropSteps, fileExists, windowOpen, faults, panicked>>

\* MonitorExit with the success test dropped: every exit returns quietly
MonitorExitSilent ==
    /\ monitor = "waiting"
    /\ proc # "running"
    /\ monitor' = "done"
    /\ UNCHANGED <<queueVars, taskVars>>
    /\ UNCHANGED <<reports, proc, shutdownCalls, kernelDropped,
                   dropSteps, fileExists, windowOpen, faults, panicked>>

\* process_status_task: status.await is Ok(status)
MonitorExit ==
    /\ monitor = "waiting"
    /\ proc # "running"
    /\ monitor' = "done"
    /\ reports' = IF proc = "exitedOk"
                  THEN reports
                  ELSE KernelErrored(StatusMsg(proc))
    /\ UNCHANGED <<queueVars, taskVars>>
    /\ UNCHANGED <<proc, shutdownCalls, kernelDropped,
                   dropSteps, fileExists, windowOpen, faults, panicked>>

\* process_status_task: status.await is Err(err)
MonitorWaitError ==
    /\ monitor = "waiting"
    /\ monitor' = "done"
    /\ reports' = KernelErrored(WaitErrorMsg)
    /\ UNCHANGED <<queueVars, taskVars>>
    /\ UNCHANGED <<proc, shutdownCalls, kernelDropped,
                   dropSteps, fileExists, windowOpen, faults, panicked>>

(***************************************************************************)
(* force_shutdown and Drop                                                 *)
(***************************************************************************)
\* self.process.kill(): the Result it returns
KillResult == IF "kill" \in faults THEN "err" ELSE "ok"

\* self.process.kill(): Ok on a running process ends it; on a process that has
\* already ended, or when the kill fails, the process is left as it is
Kill == IF KillResult = "ok" /\ proc = "running" THEN "killed" ELSE proc

\* std::fs::remove_file(&self.connection_path): the Result it returns
RemoveResult == IF "remove" \in faults \/ ~fileExists THEN "err" ELSE "ok"

\* Option<Task<()>> taken or dropped: a task still waiting is cancelled
CancelMonitor == IF monitor = "waiting" THEN "cancelled" ELSE monitor

\* ForceShutdown without self._process_status_task.take()
ForceShutdownKeepsMonitor ==
    /\ ~kernelDropped
    /\ shutdownCalls < MaxShutdownCalls
    /\ shutdownCalls' = shutdownCalls + 1
    /\ queueClosed' = TRUE
    /\ proc' = Kill
    /\ UNCHANGED <<submitted, requestQ, clones, rejected>>
    /\ UNCHANGED taskVars
    /\ UNCHANGED <<reports, monitor, kernelDropped, dropSteps, fileExists, windowOpen,
                   faults, panicked>>

\* ForceShutdown with self._process_status_task.take().unwrap(): the second
\* call finds None
ForceShutdownUnwrapsMonitor ==
    /\ ~kernelDropped
    /\ shutdownCalls < MaxShutdownCalls
    /\ shutdownCalls' = shutdownCalls + 1
    /\ IF shutdownCalls = 0
       THEN /\ monitor' = CancelMonitor
            /\ queueClosed' = TRUE
            /\ proc' = Kill
            /\ UNCHANGED panicked
       ELSE /\ panicked' = TRUE
            /\ UNCHANGED <<monitor, queueClosed, proc>>
    /\ UNCHANGED <<submitted, requestQ, clones, rejected>>
    /\ UNCHANGED taskVars
    /\ UNCHANGED <<reports, kernelDropped, dropSteps, fileExists, windowOpen, faults>>

\* ForceShutdown without self.request_tx.close_channel()
ForceShutdownLeavesQueueOpen ==
    /\ ~kernelDropped
    /\ shutdownCalls < MaxShutdownCalls
    /\ shutdownCalls' = shutdownCalls + 1
    /\ monitor' = CancelMonitor
    /\ proc' = Kill
    /\ UNCHANGED queueVars
    /\ UNCHANGED taskVars
    /\ UNCHANGED <<reports, kernelDropped, dropSteps, fileExists, windowOpen,
                   faults, panicked>>

\* ForceShutdown that also resets self.execution_state
ForceShutdownResetsState ==
    /\ ~kernelDropped
    /\ shutdownCalls < MaxShutdownCalls
    /\ shutdownCalls' = shutdownCalls + 1
    /\ monitor' = CancelMonitor
    /\ queueClosed' = TRUE
    /\ proc' = Kill
    /\ UNCHANGED <<submitted, requestQ, clones, rejected>>
    /\ UNCHANGED taskVars
    /\ UNCHANGED <<reports, kernelDropped, dropSteps, fileExists, windowOpen,
                   faults, panicked>>
    /\ executionState' = "Idle"
    /\ UNCHANGED kernelInfo

\* fn force_shutdown(&mut self, ..) -> Task<anyhow::Result<()>>
ForceShutdown ==
    /\ ~kernelDropped
    /\ shutdownCalls < MaxShutdownCalls
    /\ shutdownCalls' = shutdownCalls + 1
    /\ monitor' = CancelMonitor
    /\ queueClosed' = TRUE
    /\ proc' = Kill
    /\ UNCHANGED <<submitted, requestQ, clones, rejected>>
    /\ UNCHANGED taskVars
    /\ UNCHANGED <<reports, kernelDropped, dropSteps, fileExists, windowOpen,
                   faults, panicked>>
    /\ UNCHANGED <<executionState, kernelInfo>>

\* DropKernel without std::fs::remove_file
DropKeepsFile ==
    /\ ~kernelDropped
    /\ kernelDropped' = TRUE
    /\ queueClosed' = TRUE
    /\ proc' = Kill
    /\ dropSteps' = [remove |-> "none", close |-> "ok", kill |-> KillResult]
    /\ monitor' = CancelMonitor
    /\ UNCHANGED <<submitted, requestQ, clones, rejected>>
    /\ UNCHANGED taskVars
    /\ UNCHANGED <<reports, shutdownCalls, fileExists, windowOpen, faults, panicked>>

\* DropKernel that gives up at the first step that fails
DropStopsAtFirstFailure ==
    /\ ~kernelDropped
    /\ kernelDropped' = TRUE
    /\ IF RemoveResult = "ok"
       THEN /\ fileExists' = FALSE
            /\ queueClosed' = TRUE
            /\ proc' = Kill
            /\ dropSteps' = [remove |-> "ok", close |-> "ok", kill |-> KillResult]
       ELSE /\ dropSteps' = [remove |-> "err", close |-> "none", kill |-> "none"]
            /\ UNCHANGED <<fileExists, queueClosed, proc>>
    /\ monitor' = CancelMonitor
    /\ UNCHANGED <<submitted, requestQ, clones, rejected>>
    /\ UNCHANGED taskVars
    /\ UNCHANGED <<reports, shutdownCalls, windowOpen, faults, panicked>>

\* impl Drop for WslRunningKernel, followed by the drop of the fields
\* (_process_status_task, and process with kill_on_drop(true))
DropKernel ==
    /\ ~kernelDropped
    /\ kernelDropped' = TRUE
    /\ fileExists' = IF RemoveResult = "ok" THEN FALSE ELSE fileExists
    /\ queueClosed' = TRUE
    /\ proc' = Kill
    /\ dropSteps' = [remove |-> RemoveResult, close |-> "ok", kill |-> KillResult]
    /\ monitor' = CancelMonitor
    /\ UNCHANGED <<submitted, requestQ, clones, rejected>>
    /\ UNCHANGED taskVars
    /\ UNCHANGED <<reports, shutdownCalls, windowOpen, faults, panicked>>

\* the window of the session is closed: update_in fails from now on
CloseWindow ==
    /\ windowOpen
    /\ windowOpen' = FALSE
    /\ UNCHANGED <<queueVars, taskVars>>
    /\ UNCHANGED <<reports, proc, monitor, shutdownCalls,
                   kernelDropped, dropSteps, fileExists, faults, panicked>>

\* the environment starts or stops making an operation fail: the process can
\* no longer be killed, the connection file can no longer be removed
SetFault(f) ==
    /\ f \in {"kill", "remove"}
    /\ faults' = IF f \in faults THEN faults \ {f} ELSE faults \cup {f}
    /\ UNCHANGED <<queueVars, taskVars>>
    /\ UNCHANGED <<reports, proc, monitor, shutdownCalls,
                   kernelDropped, dropSteps, fileExists, windowOpen, panicked>>

\* the tasks that move messages
TaskStep ==
    \/ RoutingRecv
    \/ RoutingEnd
    \/ RoutingSend
    \/ \E ch \in Channels : ChanRecv(ch)
    \/ \E ch \in Channels : ChanEnd(ch)
    \/ \E ch \in Channels : ChanWrite(ch)
    \/ \E ch \in Channels : ChanRead(ch)
    \/ \E ch \in Channels : ChanReadFail(ch)
    \/ \E ch \in Channels : ChanForward(ch)
    \/ \E ch \in Channels : Deliver(ch)
    \/ IopubDeliver
    \/ IopubFail

\* the producers: the holders of request_tx() clones, sending messages whose
\* content variant is one of `kinds`
ProducerStep(kinds) ==
    \/ CloneSender
    \/ \E k \in kinds : \E h \in 1..MaxClones : Submit(h, k)

\* the producers and the tasks that move messages
TrafficStep == ProducerStep(Kinds) \/ TaskStep

\* the child process and its monitor
ProcessStep ==
    \/ \E status \in {"exitedOk", "exitedFail"} : ProcExit(status)
    \/ MonitorExit
    \/ MonitorWaitError

\* what the owner of the kernel and of the window does
OwnerStep ==
    \/ ForceShutdown
    \/ DropKernel
    \/ CloseWindow

(***************************************************************************)
(* Construction of the spawned command (WslRunningKernel::new)             *)
(***************************************************************************)
\* An argument is a text, held as the sequence of its pieces; the placeholder
\* text is one piece, so an argument may be the placeholder or contain it.
Placeholder == "{connection_file}"
ArgPool ==
    { <<"python">>, <<"-f">>, <<Placeholder>>, <<"--f=", Placeholder>> }

\* wsl_connection_path: the trimmed output of `wsl -d <distro> wslpath -u <path>`
WslConnectionPath == <<"/mnt/c/runtime/kernel-zed-wsl-1.json">>
\* kernel_specification.distro
Distro == <<"Ubuntu">>
\* Option<T>: None is the empty sequence, Some(x) the sequence of x alone
None == <<>>
Some(x) == <<x>>
WslWdPool == {None, Some(<<"/mnt/c/work">>)}
EnvPool ==
    {None, Some({}), Some({<<"A", "1">>}), Some({<<"A", "1">>, <<"B", "2">>})}

ArgvPool == UNION {[1..n -> ArgPool] : n \in 1..MaxArgv}

\* the text contains the literal {connection_file}
HasPlaceholder(arg) == \E i \in 1..Len(arg) : arg[i] = Placeholder

\* if arg == "{connection_file}" { cmd.arg(&wsl_connection_path) } else { cmd.arg(arg) }
SubstArg(arg) == IF arg = <<Placeholder>> THEN WslConnectionPath ELSE arg

\* for (k, v) in env { cmd.arg(format!("{}={}", k, v)) }: a HashMap iterates in
\* an order of its own
EnvArgOrders(env) ==
    { [i \in 1..Cardinality(env) |-> <<o[i][1], "=", o[i][2]>>] :
        o \in { f \in [1..Cardinality(env) -> env] :
                  \A i, j \in 1..Cardinality(env) : i # j => f[i] # f[j] } }

\* the command variables while no command is being built
CmdIdle ==
    /\ argv = <<>>
    /\ specEnv = None
    /\ wslWd = None
    /\ cmd = <<>>
    /\ cmdPc = "idle"

\* the state at `let mut cmd = new_smol_command("wsl")`: argv passed the
\* ensure!(!argv.is_empty()) above it
InitCmd ==
    /\ argv \in ArgvPool
    /\ specEnv \in EnvPool
    /\ wslWd \in WslWdPool
    /\ cmd = <<>>
    /\ cmdPc = "new"

\* cmd.arg("-d").arg(&kernel_specification.distro)
CmdDistro ==
    /\ cmdPc = "new"
    /\ cmd' = <<<<"-d">>, Distro>>
    /\ cmdPc' = "cd"
    /\ UNCHANGED <<argv, specEnv, wslWd>>

\* if let Some(wd) = wsl_working_directory.as_ref() { cmd.arg("--cd").arg(wd) }
CmdCd ==
    /\ cmdPc = "cd"
    /\ cmd' = IF wslWd = None THEN cmd ELSE cmd \o <<<<"--cd">>, wslWd[1]>>
    /\ cmdPc' = "exec"
    /\ UNCHANGED <<argv, specEnv, wslWd>>

\* cmd.arg("--exec")
CmdExec ==
    /\ cmdPc = "exec"
    /\ cmd' = Append(cmd, <<"--exec">>)
    /\ cmdPc' = "env"
    /\ UNCHANGED <<argv, specEnv, wslWd>>

\* CmdEnv without cmd.arg("env")
CmdEnvWithoutEnvWord ==
    /\ cmdPc = "env"
    /\ IF specEnv = None
       THEN cmd' = cmd
       ELSE \E kvs \in EnvArgOrders(specEnv[1]) : cmd' = cmd \o kvs
    /\ cmdPc' = "argv"
    /\ UNCHANGED <<argv, specEnv, wslWd>>

\* if let Some(env) = &kernelspec.env { cmd.arg("env"); for (k, v) in env { .. } }
CmdEnv ==
    /\ cmdPc = "env"
    /\ IF specEnv = None
       THEN cmd' = cmd
       ELSE \E kvs \in EnvArgOrders(specEnv[1]) : cmd' = (cmd \o <<<<"env">>>>) \o kvs
    /\ cmdPc' = "argv"
    /\ UNCHANGED <<argv, specEnv, wslWd>>

\* for arg in argv { .. }
CmdArgv ==
    /\ cmdPc = "argv"
    /\ cmd' = cmd \o [i \in 1..Len(argv) |-> SubstArg(argv[i])]
    /\ cmdPc' = "built"
    /\ UNCHANGED <<argv, specEnv, wslWd>>

NextCmd ==
    /\ (CmdDistro \/ CmdCd \/ CmdExec \/ CmdEnv \/ CmdArgv)
    /\ UNCHANGED <<portVars, pdfVars, kernelVars, stdioVars, fieldVars, launchVars, discVars>>

\* the arguments of the spawned command that come from argv
SpawnedArgv == SubSeq(cmd, Len(cmd) - Len(argv) + 1, Len(cmd))

(***************************************************************************)
(* Discovery (wsl_kernel_specifications)                                   *)
(***************************************************************************)
DistroNames == {"Ubuntu", "Debian", "Arch"}
KernelNames == {"python3", "ir"}

\* the non-empty trimmed lines of the output of `wsl -l -q`
DistroLists ==
    { ds \in UNION {[1..n -> DistroNames] : n \in 0..MaxDistros} :
        \A i, j \in 1..Len(ds) : i # j => ds[i] # ds[j] }

\* the orders in which a HashMap with the keys `names` can be iterated
KeyOrders(names) ==
    { o \in [1..Cardinality(names) -> names] :
        \A i, j \in 1..Cardinality(names) : i # j => o[i] # o[j] }

\* KernelSpecification::WslRemote(WslKernelSpecification { name, kernelspec, distro })
WslRemote(name, distro) == [name |-> name, distro |-> distro]

RECURSIVE Flatten(_)
\* .into_iter().flatten().collect()
Flatten(lists) ==
    IF lists = <<>> THEN <<>> ELSE Head(lists) \o Flatten(Tail(lists))

\* the discovery variables while no discovery is being looked at
DiscIdle ==
    /\ discPc = "idle"
    /\ enumerated = "none"
    /\ distros = <<>>
    /\ queries = <<>>
    /\ discResult = None

\* the state at the call of wsl_kernel_specifications
InitDisc ==
    /\ discPc = "enum"
    /\ enumerated = "none"
    /\ distros = <<>>
    /\ queries = <<>>
    /\ discResult = None

\* a kernelspec query task that was spawned and has not finished
QueryRunning == [pc |-> "running", names |-> {}, specs |-> <<>>]

\* DiscEnumerate with `.output().await?` and a bail! on a non-success status
DiscEnumeratePropagates(res, ds) ==
    /\ discPc = "enum"
    /\ res \in {"ok", "runErr", "nonSuccess"}
    /\ ds \in DistroLists
    /\ enumerated' = res
    /\ IF res = "ok"
       THEN /\ distros' = ds
            /\ queries' = [i \in 1..Len(ds) |-> QueryRunning]
            /\ discPc' = "join"
            /\ UNCHANGED discResult
       ELSE /\ discResult' = "Err"
            /\ discPc' = "done"
            /\ UNCHANGED <<distros, queries>>
    /\ UNCHANGED <<portVars, pdfVars, cmdVars, kernelVars, stdioVars, fieldVars, launchVars>>

\* `wsl -l -q`: if output.is_err() { return Ok(Vec::new()) };
\* if !output.status.success() { return Ok(Vec::new()) };
\* otherwise the distros are parsed and join_all spawns one task per distro
DiscEnumerate(res, ds) ==
    /\ discPc = "enum"
    /\ res \in {"ok", "runErr", "nonSuccess"}
    /\ ds \in DistroLists
    /\ enumerated' = res
    /\ IF res = "ok"
       THEN /\ distros' = ds
            /\ queries' = [i \in 1..Len(ds) |-> QueryRunning]
            /\ discPc' = "join"
            /\ UNCHANGED discResult
       ELSE /\ discResult' = Some(<<>>)
            /\ discPc' = "done"
            /\ UNCHANGED <<distros, queries>>
    /\ UNCHANGED <<portVars, pdfVars, cmdVars, kernelVars, stdioVars, fieldVars, launchVars>>

\* the task of distro i: `wsl -d <distro> jupyter kernelspec list --json` cannot
\* be run, exits with a non-success status, prints what is not a
\* KernelSpecsResponse, or prints the kernelspecs `names`
DiscQuery(i, res, names) ==
    /\ discPc = "join"
    /\ i \in 1..Len(distros)
    /\ queries[i].pc = "running"
    /\ res \in {"ok", "runErr", "nonSuccess", "badJson"}
    /\ names \in SUBSET KernelNames
    /\ IF res = "ok"
       THEN \E o \in KeyOrders(names) :
              queries' = [queries EXCEPT ![i] =
                  [pc |-> "ok", names |-> names,
                   specs |-> [k \in 1..Cardinality(names) |-> WslRemote(o[k], distros[i])]]]
       ELSE /\ names = {}
            /\ queries' = [queries EXCEPT ![i] = [pc |-> res, names |-> {}, specs |-> <<>>]]
    /\ UNCHANGED <<discPc, enumerated, distros, discResult>>
    /\ UNCHANGED <<portVars, pdfVars, cmdVars, kernelVars, stdioVars, fieldVars, launchVars>>

\* DiscJoin giving up the whole result when one query failed
DiscJoinAllOrNothing ==
    /\ discPc = "join"
    /\ \A i \in 1..Len(distros) : queries[i].pc # "running"
    /\ discResult' =
          IF \A i \in 1..Len(distros) : queries[i].pc = "ok"
          THEN Some(Flatten([i \in 1..Len(distros) |-> queries[i].specs]))
          ELSE Some(<<>>)
    /\ discPc' = "done"
    /\ UNCHANGED <<enumerated, distros, queries>>
    /\ UNCHANGED <<portVars, pdfVars, cmdVars, kernelVars, stdioVars, fieldVars, launchVars>>

\* let specs = join_all(tasks).await.into_iter().flatten().collect(); Ok(specs)
DiscJoin ==
    /\ discPc = "join"
    /\ \A i \in 1..Len(distros) : queries[i].pc # "running"
    /\ discResult' = Some(Flatten([i \in 1..Len(distros) |-> queries[i].specs]))
    /\ discPc' = "done"
    /\ UNCHANGED <<enumerated, distros, queries>>
    /\ UNCHANGED <<portVars, pdfVars, cmdVars, kernelVars, stdioVars, fieldVars, launchVars>>

NextDisc ==
    \/ \E res \in {"ok", "runErr", "nonSuccess"} : \E ds \in DistroLists : DiscEnumerate(res, ds)
    \/ \E i \in 1..MaxDistros :
         \E res \in {"ok", "runErr", "nonSuccess", "badJson"} :
           \E names \in SUBSET KernelNames : DiscQuery(i, res, names)
    \/ DiscJoin

(***************************************************************************)
(* PdfStore (crates/project/src/pdf_store.rs)                              *)
(***************************************************************************)
\* the project paths open_pdf is called with
PdfPaths == 1..MaxPdfPaths

\* PdfId::new(): NEXT_ID.fetch_add(1), starting at 1
NextPdfId == Len(pdfItems) + 1

\* self.opened_pdfs.get(pdf_id).and_then(|p| p.upgrade()): the entity of the
\* id, if the id is in the map and the entity is still alive
Upgrade(id) ==
    IF id \in opened_pdfs /\ pdfItems[id].alive THEN Some(id) ELSE None

\* the PdfItem a call of open_pdf on the path returns at once
OpenedPdf(path) ==
    IF pdfs_by_path[path] = None THEN None ELSE Upgrade(pdfs_by_path[path][1])

\* PdfStore::new
InitStore ==
    /\ pdfs_by_path = [path \in PdfPaths |-> None]
    /\ opened_pdfs = {}
    /\ pdfItems = <<>>
    /\ openCalls = <<>>

\* open_pdf up to the return of its Task: Task::ready(Ok(pdf)) for a path whose
\* PdfItem is alive, Task::ready(Err) without worktree, the spawned load
\* otherwise
OpenPdf(path, hasWorktree) ==
    /\ Len(openCalls) < MaxOpenCalls
    /\ openCalls' = Append(openCalls,
          IF OpenedPdf(path) # None
          THEN [path |-> path, pc |-> "ok", result |-> OpenedPdf(path)[1]]
          ELSE IF ~hasWorktree
               THEN [path |-> path, pc |-> "err", result |-> 0]
               ELSE [path |-> path, pc |-> "loading", result |-> 0])
    /\ UNCHANGED <<pdfs_by_path, opened_pdfs, pdfItems>>

\* the spawned load fails: worktree.update, load_binary_file, load_pdf_metadata
\* or this.update returns an error
OpenLoadFail(c) ==
    /\ c \in 1..Len(openCalls)
    /\ openCalls[c].pc = "loading"
    /\ openCalls' = [openCalls EXCEPT ![c].pc = "err"]
    /\ UNCHANGED <<pdfs_by_path, opened_pdfs, pdfItems>>

\* OpenFinish that looks the path up again before it creates the PdfItem
OpenFinishChecksAgain(c) ==
    /\ c \in 1..Len(openCalls)
    /\ openCalls[c].pc = "loading"
    /\ LET path == openCalls[c].path IN
         IF OpenedPdf(path) # None
         THEN /\ openCalls' = [openCalls EXCEPT ![c].pc = "ok",
                                               ![c].result = OpenedPdf(path)[1]]
              /\ UNCHANGED <<pdfs_by_path, opened_pdfs, pdfItems>>
         ELSE /\ pdfItems' = Append(pdfItems, [path |-> path, alive |-> TRUE])
              /\ pdfs_by_path' = [pdfs_by_path EXCEPT ![path] = Some(NextPdfId)]
              /\ opened_pdfs' = opened_pdfs \cup {NextPdfId}
              /\ openCalls' = [openCalls EXCEPT ![c].pc = "ok", ![c].result = NextPdfId]

\* the end of the spawned load, this.update(cx, |this, cx| { .. }): a new id, a
\* new PdfItem, both maps written, Ok(pdf)
OpenFinish(c) ==
    /\ c \in 1..Len(openCalls)
    /\ openCalls[c].pc = "loading"
    /\ LET path == openCalls[c].path IN
         /\ pdfItems' = Append(pdfItems, [path |-> path, alive |-> TRUE])
         /\ pdfs_by_path' = [pdfs_by_path EXCEPT ![path] = Some(NextPdfId)]
         /\ opened_pdfs' = opened_pdfs \cup {NextPdfId}
         /\ openCalls' = [openCalls EXCEPT ![c].pc = "ok", ![c].result = NextPdfId]

\* the last Entity<PdfItem> handle of an item is dropped: the entity is
\* released, the WeakEntity in opened_pdfs no longer upgrades
ReleasePdf(id) ==
    /\ id \in 1..Len(pdfItems)
    /\ pdfItems[id].alive
    /\ pdfItems' = [pdfItems EXCEPT ![id].alive = FALSE]
    /\ UNCHANGED <<pdfs_by_path, opened_pdfs, openCalls>>

NextStore ==
    /\ \/ \E path \in PdfPaths : \E hasWorktree \in BOOLEAN : OpenPdf(path, hasWorktree)
       \/ \E c \in 1..MaxOpenCalls : OpenLoadFail(c)
       \/ \E c \in 1..MaxOpenCalls : OpenFinish(c)
       \/ \E id \in 1..MaxOpenCalls : ReleasePdf(id)
    /\ UNCHANGED <<portVars, cmdVars, kernelVars, launchVars, discVars, stdioVars, fieldVars,
                   viewerVars>>

(***************************************************************************)
(* PdfViewer (crates/pdf_viewer/src/pdf_viewer.rs)                         *)
(***************************************************************************)
ViewModes == {"SinglePage", "DualPage", "ContinuousScroll"}

\* zoom_level, counted in steps of the factor 1.2 from 1.0 (step 0); MIN_ZOOM
\* and MAX_ZOOM are the ends of the ladder
ZoomLevels == (0 - ZoomRange)..ZoomRange

\* the keys page_cache and loading_pages may hold
PageKeys == 0..(MaxPages - 1)

Min(a, b) == IF a < b THEN a ELSE b
Max(a, b) == IF a > b THEN a ELSE b

\* the viewer together with the renders in flight
Cur == [v |-> viewer, r |-> renders]

Cached(v, p) == v.page_cache[p] # None
Loading(v, p) == v.loading_pages[p] # None

\* calculate_visible_pages. In ContinuousScroll the geometry of the pages is
\* reduced to the index of the page under the top edge of the view
\* (scroll_offset), the view showing that page and the one below it.
CalculateVisiblePages(v) ==
    IF pageCount = 0 THEN <<>>
    ELSE IF v.view_mode = "SinglePage" THEN <<v.current_page>>
    ELSE IF v.view_mode = "DualPage"
         THEN IF v.current_page + 1 < pageCount
              THEN <<v.current_page, v.current_page + 1>>
              ELSE <<v.current_page>>
    ELSE IF v.scroll_offset + 1 < pageCount
         THEN <<v.scroll_offset, v.scroll_offset + 1>>
         ELSE <<v.scroll_offset>>

\* the copy numbers of the renders in flight of a page at a generation
Copies(r, p, g) == {x.copy : x \in {y \in r : y.page = p /\ y.generation = g}}

\* load_page: no-op for a page that is loading or beyond the document;
\* otherwise the page is entered into loading_pages with the generation and a
\* render task is spawned with the generation and the zoom level of now.
\* (The test against page_count is made first here; no page beyond the
\* document is ever in loading_pages.)
LoadPage(W, p) ==
    IF p >= pageCount THEN W
    ELSE IF Loading(W.v, p) THEN W
    ELSE [v |-> [W.v EXCEPT !.loading_pages[p] = Some(W.v.render_generation),
                            !.is_loading = TRUE],
          r |-> W.r \cup {[page |-> p,
                           generation |-> W.v.render_generation,
                           scale_factor |-> W.v.zoom_level,
                           copy |-> CHOOSE k \in 1..(Cardinality(W.r) + 1) :
                                       /\ k \notin Copies(W.r, p, W.v.render_generation)
                                       /\ \A j \in 1..(k - 1) :
                                             j \in Copies(W.r, p, W.v.render_generation)]}]

\* for page in pages { if !cached && !loading { self.load_page(page, cx) } }
RECURSIVE LoadPages(_, _)
LoadPages(W, pages) ==
    IF pages = <<>> THEN W
    ELSE LoadPages(IF ~Cached(W.v, Head(pages)) /\ ~Loading(W.v, Head(pages))
                   THEN LoadPage(W, Head(pages))
                   ELSE W,
                   Tail(pages))

\* the pages preload_adjacent_pages asks for, in its order
PagesToPreload(v) ==
    LET cur == v.current_page
        IfPage(cond, pages) == IF cond THEN pages ELSE <<>>
    IN  IF v.view_mode = "SinglePage"
        THEN IfPage(cur > 0, <<cur - 1>>) \o IfPage(cur + 1 < pageCount, <<cur + 1>>)
        ELSE IF v.view_mode = "DualPage"
        THEN (IF cur >= 2 THEN <<cur - 2, cur - 1>>
              ELSE IF cur >= 1 THEN <<cur - 1>> ELSE <<>>)
             \o IfPage(cur + 2 < pageCount, <<cur + 2>>)
             \o IfPage(cur + 3 < pageCount, <<cur + 3>>)
        ELSE IF v.visible_pages = <<>> THEN <<>>
        ELSE LET first == Head(v.visible_pages)
                 last == v.visible_pages[Len(v.visible_pages)]
             IN  IfPage(first > 0, <<first - 1>>)
                 \o IfPage(first > 1, <<first - 2>>)
                 \o IfPage(last + 1 < pageCount, <<last + 1>>)
                 \o IfPage(last + 2 < pageCount, <<last + 2>>)

\* preload_adjacent_pages
PreloadAdjacentPages(W) ==
    IF pageCount = 0 THEN W ELSE LoadPages(W, PagesToPreload(W.v))

\* update_loading_state
UpdateLoadingState(v) ==
    [v EXCEPT !.is_loading =
        \/ \E p \in PageKeys : Loading(v, p)
        \/ \E i \in 1..Len(v.visible_pages) : ~Cached(v, v.visible_pages[i])]

\* load_visible_pages
LoadVisiblePages(W) ==
    LET old_visible == W.v.visible_pages
        new_visible == CalculateVisiblePages(W.v)
        cache_has_all_visible ==
            /\ new_visible # <<>>
            /\ \A i \in 1..Len(new_visible) : Cached(W.v, new_visible[i])
    IN  IF new_visible = old_visible /\ cache_has_all_visible
        THEN W
        ELSE LET W1 == [W EXCEPT !.v.visible_pages = new_visible]
                 W2 == LoadPages(W1, new_visible)
                 W3 == PreloadAdjacentPages(W2)
             IN  [W3 EXCEPT !.v = UpdateLoadingState(W3.v)]

\* clear_cache_and_reload (wrapping_add wraps at 2^64, which the bound on the
\* generation keeps out of reach)
ClearCacheAndReload(W) ==
    LoadVisiblePages(
        [W EXCEPT !.v.render_generation = @ + 1,
                  !.v.page_cache = [p \in PageKeys |-> None],
                  !.v.loading_pages = [p \in PageKeys |-> None],
                  !.v.visible_pages = <<>>,
                  !.v.is_loading = TRUE])

\* the struct PdfViewer::new builds, before its call of load_visible_pages
NewViewer ==
    [current_page |-> 0,
     zoom_level |-> 0,
     page_cache |-> [p \in PageKeys |-> None],
     scroll_offset |-> 0,
     view_mode |-> "SinglePage",
     is_loading |-> TRUE,
     loading_pages |-> [p \in PageKeys |-> None],
     visible_pages |-> <<0>>,
     render_generation |-> 0]

\* PdfViewer::new on a document of n pages
ViewerOpened(n) ==
    /\ pageCount = n
    /\ LET W == LoadVisiblePages([v |-> NewViewer, r |-> {}]) IN
         /\ viewer = W.v
         /\ renders = W.r
    /\ userActive = TRUE

\* no document is being looked at
ViewerIdle == ViewerOpened(0)

\* a viewer on a document of at least one page
InitViewer == \E n \in 1..MaxPages : ViewerOpened(n)

\* the end of a handler of a user action: the new fields of the viewer and the
\* renders it has spawned
Handled(W) ==
    /\ userActive
    /\ Cardinality(W.r) <= MaxRenders
    /\ viewer' = W.v
    /\ renders' = W.r
    /\ UNCHANGED <<pageCount, userActive>>

\* zoom_in, zoom_out, zoom_reset and the zoom of the scroll wheel: zoom_level
\* is set, then clear_cache_and_reload
SetZoom(zoom) ==
    /\ viewer.render_generation < MaxGeneration
    /\ Handled(ClearCacheAndReload([Cur EXCEPT !.v.zoom_level = zoom]))

ZoomIn == SetZoom(Min(viewer.zoom_level + 1, ZoomRange))
ZoomOut == SetZoom(Max(viewer.zoom_level - 1, 0 - ZoomRange))
ZoomReset == SetZoom(0)

\* on_scroll_wheel with control: a zoom level that differs from the current one
WheelZoom(zoom) ==
    /\ zoom # viewer.zoom_level
    /\ SetZoom(zoom)

\* next_page
NextPageOf(W) ==
    LET increment == IF W.v.view_mode = "DualPage" THEN 2 ELSE 1 IN
    IF pageCount = 0 THEN W
    ELSE IF W.v.current_page + increment < pageCount
    THEN LoadVisiblePages([W EXCEPT !.v.current_page = @ + increment,
                                    !.v.scroll_offset = 0])
    ELSE W

\* NextPageOf that tests the page after the current one whatever the increment
NextPageTestsOneAhead ==
    LET increment == IF viewer.view_mode = "DualPage" THEN 2 ELSE 1 IN
    Handled(IF pageCount = 0 THEN Cur
            ELSE IF viewer.current_page + 1 < pageCount
            THEN LoadVisiblePages([Cur EXCEPT !.v.current_page = @ + increment,
                                              !.v.scroll_offset = 0])
            ELSE Cur)

NextPage == Handled(NextPageOf(Cur))

\* previous_page
PreviousPageOf(W) ==
    LET decrement == IF W.v.view_mode = "DualPage" THEN 2 ELSE 1 IN
    IF W.v.current_page >= decrement
    THEN LoadVisiblePages([W EXCEPT !.v.current_page = @ - decrement,
                                    !.v.scroll_offset = 0])
    ELSE IF W.v.current_page > 0
    THEN LoadVisiblePages([W EXCEPT !.v.current_page = 0, !.v.scroll_offset = 0])
    ELSE W

PreviousPage == Handled(PreviousPageOf(Cur))

\* page_down: in ContinuousScroll the view moves down by PAGE_SCROLL_AMOUNT,
\* which brings the next page under its top edge or not (crossed), and not
\* beyond the last page (clamp_scroll); next_page in the other modes
PageDown(crossed) ==
    Handled(IF viewer.view_mode = "ContinuousScroll"
            THEN LoadVisiblePages(
                    [Cur EXCEPT !.v.scroll_offset =
                        IF crossed THEN Min(@ + 1, Max(pageCount - 1, 0)) ELSE @])
            ELSE NextPageOf(Cur))

\* page_up
PageUp(crossed) ==
    Handled(IF viewer.view_mode = "ContinuousScroll"
            THEN LoadVisiblePages(
                    [Cur EXCEPT !.v.scroll_offset = IF crossed THEN Max(@ - 1, 0) ELSE @])
            ELSE PreviousPageOf(Cur))

\* go_to_first_page
GoToFirstPage ==
    Handled(IF viewer.current_page # 0 \/ viewer.scroll_offset # 0
            THEN LoadVisiblePages([Cur EXCEPT !.v.current_page = 0, !.v.scroll_offset = 0])
            ELSE Cur)

\* go_to_last_page
GoToLastPage ==
    Handled(IF pageCount = 0 THEN Cur
            ELSE IF viewer.view_mode = "ContinuousScroll"
            THEN LoadVisiblePages([Cur EXCEPT !.v.scroll_offset = pageCount - 1])
            ELSE IF viewer.current_page # pageCount - 1
            THEN LoadVisiblePages([Cur EXCEPT !.v.current_page = pageCount - 1,
                                              !.v.scroll_offset = 0])
            ELSE Cur)

\* set_view_mode
SetViewMode(mode) ==
    Handled(IF viewer.view_mode # mode
            THEN LoadVisiblePages([Cur EXCEPT !.v.view_mode = mode,
                                              !.v.scroll_offset = 0,
                                              !.v.loading_pages = [p \in PageKeys |-> None]])
            ELSE Cur)

\* the user issues no further action
UserStops ==
    /\ userActive
    /\ userActive' = FALSE
    /\ UNCHANGED <<pageCount, viewer, renders>>

\* the loading entry of the page after a render of the generation has ended:
\* if this.loading_pages.get(&page_number) == Some(&generation) { remove }
RemoveIfOwn(v, r) ==
    IF v.loading_pages[r.page] = Some(r.generation)
    THEN [v EXCEPT !.loading_pages[r.page] = None]
    ELSE v

\* how a render task ends: the render returned Ok or Err, or the task found no
\* bytes of the document (no metadata, or cx.update failed) and did not render
RenderOutcomes == {"Ok", "Err", "NoBytes"}

\* the fields after a render of the current generation has returned
\* render_result: the loading entry of the page is removed, the page is
\* inserted into page_cache if Ok
Rendered(v, r, render_result) ==
    [v EXCEPT !.loading_pages[r.page] = None,
              !.page_cache[r.page] = IF render_result = "Ok" THEN Some(r.scale_factor) ELSE @]

\* RenderDone without the comparison of the generations
RenderDoneIgnoresGeneration(r, render_result) ==
    /\ r \in renders
    /\ renders' = renders \ {r}
    /\ viewer' = UpdateLoadingState(IF render_result = "NoBytes" THEN RemoveIfOwn(viewer, r)
                                    ELSE Rendered(viewer, r, render_result))
    /\ UNCHANGED <<pageCount, userActive>>

\* RenderDone without update_loading_state after a render of the current
\* generation
RenderDoneKeepsLoadingState(r, render_result) ==
    /\ r \in renders
    /\ renders' = renders \ {r}
    /\ viewer' = IF render_result = "NoBytes" \/ r.generation # viewer.render_generation
                 THEN UpdateLoadingState(RemoveIfOwn(viewer, r))
                 ELSE Rendered(viewer, r, render_result)
    /\ UNCHANGED <<pageCount, userActive>>

\* the end of a render task, in this.update(cx, |this, cx| { .. }): without
\* bytes, or with a generation that is no longer the current one, the task
\* removes the loading entry of its page if the entry bears its generation;
\* a render of the current generation is taken over; update_loading_state
RenderDone(r, render_result) ==
    /\ r \in renders
    /\ renders' = renders \ {r}
    /\ viewer' = UpdateLoadingState(
                    IF render_result = "NoBytes" \/ r.generation # viewer.render_generation
                    THEN RemoveIfOwn(viewer, r)
                    ELSE Rendered(viewer, r, render_result))
    /\ UNCHANGED <<pageCount, userActive>>

\* what the user does
UserStep ==
    \/ ZoomIn
    \/ ZoomOut
    \/ ZoomReset
    \/ \E zoom \in ZoomLevels : WheelZoom(zoom)
    \/ NextPage
    \/ PreviousPage
    \/ \E crossed \in BOOLEAN : PageDown(crossed)
    \/ \E crossed \in BOOLEAN : PageUp(crossed)
    \/ GoToFirstPage
    \/ GoToLastPage
    \/ \E mode \in ViewModes : SetViewMode(mode)

\* a render in flight ends
RenderStep ==
    /\ \E r \in renders : \E render_result \in RenderOutcomes : RenderDone(r, render_result)
    /\ UNCHANGED <<portVars, cmdVars, kernelVars, launchVars, discVars, stdioVars, fieldVars,
                   storeVars>>

NextViewer ==
    \/ /\ UserStep
       /\ UNCHANGED <<portVars, cmdVars, kernelVars, launchVars, discVars, stdioVars,
                      fieldVars, storeVars>>
    \/ RenderStep

\* the user turns pages, changes the view mode, zooms in, and at some moment
\* stops
BriefUserStep ==
    \/ ZoomIn
    \/ NextPage
    \/ PreviousPage
    \/ \E mode \in ViewModes : SetViewMode(mode)
    \/ UserStops

NextViewerBrief ==
    \/ /\ BriefUserStep
       /\ UNCHANGED <<portVars, cmdVars, kernelVars, launchVars, discVars, stdioVars,
                      fieldVars, storeVars>>
    \/ RenderStep

(***************************************************************************)
(* stdout and stderr of the child process, and their drain tasks           *)
(***************************************************************************)
Streams == {"stdout", "stderr"}

\* what the process writes: a line of valid UTF-8, or a line that contains
\* bytes that are not valid UTF-8, for which lines.next() is Some(Err(_))
LineKinds == {"text", "invalid"}

\* the read of the pipe returns end of file: the process has ended and
\* everything it wrote has been read
PipeAtEof(s) == proc # "running" /\ pipe[s] = <<>>

\* the pipes of a kernel that has just been launched: Stdio::piped() makes
\* process.stdout.take() and process.stderr.take() Some, so both drain tasks
\* enter their loops
InitStdio ==
    /\ pipe = [s \in Streams |-> <<>>]
    /\ written = [s \in Streams |-> 0]
    /\ drain = [s \in Streams |-> "reading"]
    /\ logged = [s \in Streams |-> 0]

\* the pipes while no child process exists
StdioIdle ==
    /\ pipe = [s \in Streams |-> <<>>]
    /\ written = [s \in Streams |-> 0]
    /\ drain = [s \in Streams |-> "none"]
    /\ logged = [s \in Streams |-> 0]

\* the running process writes a line to its stdout or stderr; once the drain
\* task has ended the read end is closed and nothing more enters the pipe
ProcWrite(s, kind) ==
    /\ proc = "running"
    /\ drain[s] = "reading"
    /\ written[s] < MaxLines
    /\ written' = [written EXCEPT ![s] = @ + 1]
    /\ pipe' = [pipe EXCEPT ![s] = Append(@, kind)]
    /\ UNCHANGED <<drain, logged>>

\* DrainLine that tells an unreadable line from the end of the stream: the
\* loop skips the line and goes on
DrainLineSkipsErrors(s) ==
    /\ drain[s] = "reading"
    /\ pipe[s] # <<>>
    /\ pipe' = [pipe EXCEPT ![s] = Tail(@)]
    /\ IF Head(pipe[s]) = "text"
       THEN logged' = [logged EXCEPT ![s] = @ + 1]
       ELSE UNCHANGED logged
    /\ UNCHANGED <<drain, written>>

\* while let Some(Ok(line)) = lines.next().await { log }: lines.next() returns
\* a line; Some(Ok(line)) is logged and the loop goes on, Some(Err(_)) does
\* not match the pattern and the loop, and with it the task, ends
DrainLine(s) ==
    /\ drain[s] = "reading"
    /\ pipe[s] # <<>>
    /\ pipe' = [pipe EXCEPT ![s] = Tail(@)]
    /\ IF Head(pipe[s]) = "text"
       THEN /\ logged' = [logged EXCEPT ![s] = @ + 1]
            /\ UNCHANGED drain
       ELSE /\ drain' = [drain EXCEPT ![s] = "done"]
            /\ UNCHANGED logged
    /\ UNCHANGED written

\* lines.next() returns None at the end of the stream: the task ends
DrainEof(s) ==
    /\ drain[s] = "reading"
    /\ PipeAtEof(s)
    /\ drain' = [drain EXCEPT ![s] = "done"]
    /\ UNCHANGED <<pipe, written, logged>>

\* the steps of the two drain tasks
DrainStep == \E s \in Streams : DrainLine(s) \/ DrainEof(s)

(***************************************************************************)
(* execution_state and kernel_info                                         *)
(***************************************************************************)
\* the values of ExecutionState the consumer sets
ExecutionStates == {"Idle", "Busy"}

\* the KernelInfoReply messages the consumer may pass
KernelInfoReplies == 1..MaxInfoReplies

\* execution_state: ExecutionState::Idle, kernel_info: None
InitFields ==
    /\ executionState = "Idle"
    /\ kernelInfo = None

\* before Self { .. } is built
FieldsIdle ==
    /\ executionState = "NotBuilt"
    /\ kernelInfo = None

\* fn set_execution_state(&mut self, state: ExecutionState)
SetExecutionState(state) ==
    /\ ~kernelDropped
    /\ executionState' = state
    /\ UNCHANGED kernelInfo

\* SetKernelInfo that keeps the first reply
SetKernelInfoOnce(info) ==
    /\ ~kernelDropped
    /\ kernelInfo' = IF kernelInfo = None THEN Some(info) ELSE kernelInfo
    /\ UNCHANGED executionState

\* fn set_kernel_info(&mut self, info: KernelInfoReply)
SetKernelInfo(info) ==
    /\ ~kernelDropped
    /\ kernelInfo' = Some(info)
    /\ UNCHANGED executionState

\* the calls of the consumer
ConsumerStep ==
    \/ \E state \in ExecutionStates : SetExecutionState(state)
    \/ \E info \in KernelInfoReplies : SetKernelInfo(info)

(***************************************************************************)
(* The launch (the async block of WslRunningKernel::new)                   *)
(***************************************************************************)
SocketNames == {"iopub", "shell", "control"}
LaunchSteps ==
    {"ports", "mkdir", "write", "wslpath", "wd", "spawn"} \cup SocketNames

\* every task the launch spawns, between the last connect and Ok(Box::new(Self ..))
LaunchedTasks ==
    TaskNames \cup {"delivery task", "stderr drain", "stdout drain",
                    "supervisor", "process status task"}

\* the results peek_ports(ip).await can have had: Ok with five distinct ports,
\* Ok with a port handed out twice, Err at the third bind
PeekResults ==
    { [ports |-> <<1, 2, 3, 4, 5>>, pc |-> "ok"],
      [ports |-> <<1, 2, 1, 3, 4>>, pc |-> "ok"],
      [ports |-> <<1, 2>>, pc |-> "err"] }

\* the part of the life-cycle state the launch does not touch
lifeRest == <<reports, shutdownCalls, kernelDropped, dropSteps, windowOpen, faults, panicked>>

\* the launch variables while no launch is being looked at
LaunchIdle ==
    /\ launchPc = "idle"
    /\ outcome = [s \in LaunchSteps |-> "none"]
    /\ sockets = [s \in SocketNames |-> "none"]
    /\ attempts = [s \in SocketNames |-> 0]
    /\ started = {}

\* the kernel state before anything of it exists: no connection file, no child
\* process, no process_status_task, empty queues
KernelNotLaunched ==
    /\ submitted = <<>>
    /\ requestQ = <<>>
    /\ queueClosed = FALSE
    /\ clones = <<>>
    /\ rejected = {}
    /\ routing = [pc |-> "recv", msg |-> 0]
    /\ forwards = [c \in Channels |-> <<>>]
    /\ chanQ = [c \in Channels |-> <<>>]
    /\ chanTask = [c \in Channels |-> [pc |-> "recv", msg |-> 0, wrote |-> FALSE]]
    /\ sockLog = [c \in Channels |-> <<>>]
    /\ replies = [c \in Channels |-> <<>>]
    /\ replyQ = [c \in Channels |-> <<>>]
    /\ iopubTask = "loop"
    /\ iopubRead = 0
    /\ routed = [o \in Origins |-> <<>>]
    /\ lostDeliveries = [o \in Origins |-> <<>>]
    /\ supervised = {}
    /\ reports = [m \in ReportMsgs |-> 0]
    /\ proc = "none"
    /\ monitor = "none"
    /\ shutdownCalls = 0
    /\ kernelDropped = FALSE
    /\ dropSteps = [remove |-> "none", close |-> "none", kill |-> "none"]
    /\ fileExists = FALSE
    /\ windowOpen = TRUE
    /\ faults = {}
    /\ panicked = FALSE
    /\ StdioIdle
    /\ FieldsIdle

\* the state at `let ports = peek_ports(ip).await?`, peek_ports having returned;
\* kernel_specification is the argument of new
InitLaunch ==
    /\ \E r \in PeekResults : ports = r.ports /\ peekPc = r.pc
    /\ listener = 0
    /\ argv \in ArgvPool \cup {<<>>}
    /\ specEnv \in EnvPool
    /\ wslWd = None
    /\ cmd = <<>>
    /\ cmdPc = "idle"
    /\ KernelNotLaunched
    /\ launchPc = "ports"
    /\ outcome = [s \in LaunchSteps |-> "none"]
    /\ sockets = [s \in SocketNames |-> "none"]
    /\ attempts = [s \in SocketNames |-> 0]
    /\ started = {}
    /\ DiscIdle
    /\ InitStore
    /\ ViewerIdle

\* an early return of the async block (`?`, bail!, ensure!): its locals are
\* dropped: every connection opened so far is closed, and the Child, spawned
\* with kill_on_drop(true), is killed
DropLocals ==
    /\ sockets' = [s \in SocketNames |-> IF sockets[s] = "open" THEN "closed" ELSE sockets[s]]
    /\ proc' = Kill

\* let ports = peek_ports(ip).await?
LaunchPorts ==
    /\ launchPc = "ports"
    /\ outcome' = [outcome EXCEPT !["ports"] = peekPc]
    /\ launchPc' = IF peekPc = "ok" THEN "mkdir" ELSE "err"
    /\ UNCHANGED <<sockets, attempts, started>>
    /\ UNCHANGED <<portVars, pdfVars, cmdVars, kernelVars, stdioVars, fieldVars, discVars>>

\* fs.create_dir(&runtime_dir).await.with_context(..)?
LaunchCreateDir(res) ==
    /\ launchPc = "mkdir"
    /\ res \in {"ok", "err"}
    /\ outcome' = [outcome EXCEPT !["mkdir"] = res]
    /\ launchPc' = IF res = "ok" THEN "write" ELSE "err"
    /\ UNCHANGED <<sockets, attempts, started>>
    /\ UNCHANGED <<portVars, pdfVars, cmdVars, kernelVars, stdioVars, fieldVars, discVars>>

\* LaunchWriteFile discarding the result of the write with .ok()
LaunchWriteFileIgnoresError(res) ==
    /\ launchPc = "write"
    /\ res \in {"ok", "err"}
    /\ outcome' = [outcome EXCEPT !["write"] = res]
    /\ fileExists' = (res = "ok")
    /\ launchPc' = "wslpath"
    /\ UNCHANGED <<sockets, attempts, started>>
    /\ UNCHANGED <<portVars, pdfVars, cmdVars, queueVars, taskVars, stdioVars, fieldVars, proc, monitor, lifeRest, discVars>>

\* fs.atomic_write(connection_path.clone(), content).await?
LaunchWriteFile(res) ==
    /\ launchPc = "write"
    /\ res \in {"ok", "err"}
    /\ outcome' = [outcome EXCEPT !["write"] = res]
    /\ fileExists' = (res = "ok")
    /\ launchPc' = IF res = "ok" THEN "wslpath" ELSE "err"
    /\ UNCHANGED <<sockets, attempts, started>>
    /\ UNCHANGED <<portVars, pdfVars, cmdVars, queueVars, taskVars, stdioVars, fieldVars, proc, monitor, lifeRest, discVars>>

\* LaunchWslpath treating a failed translation of the connection path like a
\* failed translation of the working directory
LaunchWslpathLenient(res) ==
    /\ launchPc = "wslpath"
    /\ res \in {"ok", "runErr", "nonSuccess"}
    /\ outcome' = [outcome EXCEPT !["wslpath"] = res]
    /\ launchPc' = "ensure"
    /\ UNCHANGED <<sockets, attempts, started>>
    /\ UNCHANGED <<portVars, pdfVars, cmdVars, kernelVars, stdioVars, fieldVars, discVars>>

\* let output = wslpath_cmd.output().await?;
\* if !output.status.success() { anyhow::bail!(..) }
LaunchWslpath(res) ==
    /\ launchPc = "wslpath"
    /\ res \in {"ok", "runErr", "nonSuccess"}
    /\ outcome' = [outcome EXCEPT !["wslpath"] = res]
    /\ launchPc' = IF res = "ok" THEN "ensure" ELSE "err"
    /\ UNCHANGED <<sockets, attempts, started>>
    /\ UNCHANGED <<portVars, pdfVars, cmdVars, kernelVars, stdioVars, fieldVars, discVars>>

\* LaunchEnsureArgv without the ensure!
LaunchEnsureArgvMissing ==
    /\ launchPc = "ensure"
    /\ launchPc' = "wd"
    /\ UNCHANGED <<outcome, sockets, attempts, started>>
    /\ UNCHANGED <<portVars, pdfVars, cmdVars, kernelVars, stdioVars, fieldVars, discVars>>

\* anyhow::ensure!(!argv.is_empty(), ..)
LaunchEnsureArgv ==
    /\ launchPc = "ensure"
    /\ launchPc' = IF argv = <<>> THEN "err" ELSE "wd"
    /\ UNCHANGED <<outcome, sockets, attempts, started>>
    /\ UNCHANGED <<portVars, pdfVars, cmdVars, kernelVars, stdioVars, fieldVars, discVars>>

\* the translated working directory
WslWorkingDirectory == <<"/mnt/c/work">>

\* LaunchWd propagating a failed translation with `?` / bail!
LaunchWdFatal(res) ==
    /\ launchPc = "wd"
    /\ res \in {"ok", "runErr", "nonSuccess"}
    /\ outcome' = [outcome EXCEPT !["wd"] = res]
    /\ IF res = "ok"
       THEN /\ wslWd' = Some(WslWorkingDirectory)
            /\ launchPc' = "build"
            /\ cmdPc' = "new"
       ELSE /\ launchPc' = "err"
            /\ UNCHANGED <<wslWd, cmdPc>>
    /\ UNCHANGED <<argv, specEnv, cmd>>
    /\ UNCHANGED <<sockets, attempts, started>>
    /\ UNCHANGED <<portVars, pdfVars, kernelVars, stdioVars, fieldVars, discVars>>

\* let wd_output = wslpath_wd_cmd.output().await;
\* let wsl_working_directory = if let Ok(output) = wd_output {
\*     if output.status.success() { Some(..) } else { None } } else { None };
\* then `let mut cmd = new_smol_command("wsl")`
LaunchWd(res) ==
    /\ launchPc = "wd"
    /\ res \in {"ok", "runErr", "nonSuccess"}
    /\ outcome' = [outcome EXCEPT !["wd"] = res]
    /\ wslWd' = IF res = "ok" THEN Some(WslWorkingDirectory) ELSE None
    /\ launchPc' = "build"
    /\ cmdPc' = "new"
    /\ UNCHANGED <<argv, specEnv, cmd>>
    /\ UNCHANGED <<sockets, attempts, started>>
    /\ UNCHANGED <<portVars, pdfVars, kernelVars, stdioVars, fieldVars, discVars>>

\* cmd.stdout(piped()).stderr(piped()).stdin(piped()).kill_on_drop(true).spawn()
\*     .context("failed to start the kernel process")?
LaunchSpawn(res) ==
    /\ launchPc = "build"
    /\ cmdPc = "built"
    /\ res \in {"ok", "err"}
    /\ outcome' = [outcome EXCEPT !["spawn"] = res]
    /\ proc' = IF res = "ok" THEN "running" ELSE proc
    /\ launchPc' = IF res = "ok" THEN "iopub" ELSE "err"
    /\ UNCHANGED <<sockets, attempts, started>>
    /\ UNCHANGED <<portVars, pdfVars, cmdVars, queueVars, taskVars, stdioVars, fieldVars, monitor, fileExists, lifeRest,
                   discVars>>

\* the step after the connection of socket s
AfterConnect(s) ==
    CASE s = "iopub" -> "shell"
      [] s = "shell" -> "control"
      [] s = "control" -> "start"

\* LaunchConnect keeping the Child and the open connections alive on failure
LaunchConnectLeaks(s, res) ==
    /\ s \in SocketNames
    /\ launchPc = s
    /\ res \in {"ok", "err"}
    /\ outcome' = [outcome EXCEPT ![s] = res]
    /\ attempts' = [attempts EXCEPT ![s] = @ + 1]
    /\ IF res = "ok"
       THEN /\ sockets' = [sockets EXCEPT ![s] = "open"]
            /\ launchPc' = AfterConnect(s)
       ELSE /\ launchPc' = "err"
            /\ UNCHANGED sockets
    /\ UNCHANGED <<proc, started>>
    /\ UNCHANGED <<portVars, pdfVars, cmdVars, queueVars, taskVars, stdioVars, fieldVars, monitor, fileExists, lifeRest,
                   discVars>>

\* runtimelib::create_client_iopub_connection(&connection_info, "", &session_id).await?
\* runtimelib::create_client_shell_connection(&connection_info, &session_id).await?
\* runtimelib::create_client_control_connection(&connection_info, &session_id).await?
LaunchConnect(s, res) ==
    /\ s \in SocketNames
    /\ launchPc = s
    /\ res \in {"ok", "err"}
    /\ outcome' = [outcome EXCEPT ![s] = res]
    /\ attempts' = [attempts EXCEPT ![s] = @ + 1]
    /\ IF res = "ok"
       THEN /\ sockets' = [sockets EXCEPT ![s] = "open"]
            /\ launchPc' = AfterConnect(s)
            /\ UNCHANGED proc
       ELSE /\ launchPc' = "err"
            /\ DropLocals
    /\ UNCHANGED started
    /\ UNCHANGED <<portVars, pdfVars, cmdVars, queueVars, taskVars, stdioVars, fieldVars, monitor, fileExists, lifeRest,
                   discVars>>

\* from the creation of the request channel to Ok(Box::new(Self { .. })): the
\* channels are created and every task is spawned, with no await in between
LaunchStart ==
    /\ launchPc = "start"
    /\ started' = LaunchedTasks
    /\ monitor' = "waiting"
    /\ drain' = [s \in Streams |-> "reading"]
    /\ executionState' = "Idle"
    /\ kernelInfo' = None
    /\ launchPc' = "ok"
    /\ UNCHANGED <<outcome, sockets, attempts>>
    /\ UNCHANGED <<portVars, pdfVars, cmdVars, queueVars, taskVars, pipe, written, logged, proc, fileExists, lifeRest,
                   discVars>>

\* the construction of the command inside the launch
LaunchBuild ==
    /\ launchPc = "build"
    /\ (CmdDistro \/ CmdCd \/ CmdExec \/ CmdEnv \/ CmdArgv)
    /\ UNCHANGED <<portVars, pdfVars, kernelVars, stdioVars, fieldVars, launchVars, discVars>>

NextLaunch ==
    \/ LaunchPorts
    \/ \E res \in {"ok", "err"} : LaunchCreateDir(res)
    \/ \E res \in {"ok", "err"} : LaunchWriteFile(res)
    \/ \E res \in {"ok", "runErr", "nonSuccess"} : LaunchWslpath(res)
    \/ LaunchEnsureArgv
    \/ \E res \in {"ok", "runErr", "nonSuccess"} : LaunchWd(res)
    \/ LaunchBuild
    \/ \E res \in {"ok", "err"} : LaunchSpawn(res)
    \/ \E s \in SocketNames : \E res \in {"ok", "err"} : LaunchConnect(s, res)
    \/ LaunchStart

(***************************************************************************)
(* Specifications                                                          *)
(***************************************************************************)
PdfIdle == InitStore /\ ViewerIdle

Init ==
    /\ InitPorts /\ CmdIdle /\ InitKernel /\ InitStdio /\ InitFields /\ LaunchIdle /\ DiscIdle
    /\ PdfIdle

\* The message traffic of a launched kernel under every behaviour of its owner.
\* The process and its monitor read and write only proc, monitor and reports;
\* the supervisor reads the state of the tasks and writes only supervised and
\* reports; no message-moving task reads proc, monitor, fileExists, faults,
\* supervised or reports. Their steps are left to SpecLifecycle and
\* SpecSupervised.
NextTraffic == (TrafficStep \/ OwnerStep) /\ UNCHANGED restVars
Spec == Init /\ [][NextTraffic]_vars

\* one content variant of each class
OneKindPerClass == {"ShutdownRequest", "ExecuteRequest"}

\* The message traffic together with the supervisor of the four tasks, the
\* producers sending one content variant of each class.
NextSupervised ==
    /\ \/ ProducerStep(OneKindPerClass)
       \/ TaskStep
       \/ \E name \in TaskNames : Supervise(name)
       \/ OwnerStep
    /\ UNCHANGED restVars
SpecSupervised == Init /\ [][NextSupervised]_vars

\* a step of the routing task
RoutingStep == (RoutingRecv \/ RoutingEnd \/ RoutingSend) /\ UNCHANGED restVars

\* a step of a channel task that does not wait for the kernel: taking a
\* request, writing it, forwarding a reply, leaving the loop
ChannelStep(ch) ==
    (ChanRecv(ch) \/ ChanEnd(ch) \/ ChanWrite(ch) \/ ChanForward(ch)) /\ UNCHANGED restVars

\* a step of the delivery task
DeliveryStep == (\E ch \in Channels : Deliver(ch)) /\ UNCHANGED restVars

\* a step of the supervisor
SupervisorStep == (\E name \in TaskNames : Supervise(name)) /\ UNCHANGED restVars

\* The executor runs every task that can make a step. What a socket read
\* returns, and when, is up to the kernel and the transport: no fairness is
\* assumed for the arrival of a message or of a read error.
SpecSupervisedFair ==
    /\ SpecSupervised
    /\ WF_vars(RoutingStep)
    /\ \A ch \in Channels : WF_vars(ChannelStep(ch))
    /\ WF_vars(DeliveryStep)
    /\ WF_vars(SupervisorStep)


\* The life cycle of a launched kernel: the process, its monitor, the owner
\* of the kernel and the faults of the environment.
NextLifecycle ==
    /\ \/ ProcessStep
       \/ OwnerStep
       \/ \E f \in {"kill", "remove"} : SetFault(f)
    /\ UNCHANGED restVars
SpecLifecycle == Init /\ [][NextLifecycle]_vars

\* The child process, its two pipes and their drain tasks, the monitor and the
\* owner of the kernel.
NextStdio ==
    /\ \/ (\E s \in Streams : \E kind \in LineKinds : ProcWrite(s, kind)) /\ UNCHANGED kernelVars
       \/ DrainStep /\ UNCHANGED kernelVars
       \/ (ProcessStep \/ ForceShutdown \/ DropKernel) /\ UNCHANGED stdioVars
    /\ UNCHANGED <<portVars, pdfVars, cmdVars, launchVars, discVars, fieldVars>>
SpecStdio == Init /\ [][NextStdio]_vars

\* The two fields the consumer sets, under every behaviour of the process, of
\* its monitor and of the owner of the kernel.
NextFields ==
    /\ \/ ConsumerStep /\ UNCHANGED kernelVars
       \/ (ProcessStep \/ OwnerStep) /\ UNCHANGED fieldVars
    /\ UNCHANGED <<portVars, pdfVars, cmdVars, launchVars, discVars, stdioVars>>
SpecFields == Init /\ [][NextFields]_vars

\* a step of a background task of the launch other than the drain tasks: the
\* routing, shell, control, iopub and delivery tasks, the supervisor, the
\* process-exit monitor
BackgroundStep ==
    \/ TaskStep
    \/ \E name \in TaskNames : Supervise(name)
    \/ MonitorExit
    \/ MonitorWaitError

\* A launched kernel with every background task of the launch, the consumer
\* and force_shutdown. The inputs are kept small: the producers send one
\* message, the process writes one line, to stderr, force_shutdown is called
\* once, the window stays open and the kernel is not dropped.
NextSession ==
    /\ \/ /\ Len(submitted) < MaxSessionMsgs
          /\ ProducerStep(OneKindPerClass)
          /\ UNCHANGED <<stdioVars, fieldVars>>
       \/ BackgroundStep /\ UNCHANGED <<stdioVars, fieldVars>>
       \/ DrainStep /\ UNCHANGED <<kernelVars, fieldVars>>
       \/ /\ written["stderr"] < MaxSessionLines
          /\ \E kind \in LineKinds : ProcWrite("stderr", kind)
          /\ UNCHANGED <<kernelVars, fieldVars>>
       \/ /\ \E status \in {"exitedOk", "exitedFail"} : ProcExit(status)
          /\ UNCHANGED <<stdioVars, fieldVars>>
       \/ ~ShutdownCalled /\ ForceShutdown /\ UNCHANGED stdioVars
       \/ ConsumerStep /\ UNCHANGED <<kernelVars, stdioVars>>
    /\ UNCHANGED <<portVars, pdfVars, cmdVars, launchVars, discVars>>
SpecSession == Init /\ [][NextSession]_vars

\* a step of a channel task that does not wait for the kernel, the socket
\* write succeeding
StallChannelStep(ch) ==
    /\ \/ ChanRecv(ch)
       \/ ChanEnd(ch)
       \/ ChanWrite(ch) /\ chanTask'[ch].wrote
       \/ ChanForward(ch)
    /\ UNCHANGED restVars

\* the kernel answers a request: the read of the reply returns
ReplyStep(ch) == ChanRead(ch) /\ UNCHANGED restVars

\* The request path of a running kernel whose sockets do not fail and whose
\* owner does nothing: the producers, the routing task, the shell and control
\* tasks, the delivery task, and the replies of the kernel.
NextStall ==
    \/ /\ \/ CloneSender
          \/ \E k \in OneKindPerClass : \E h \in 1..MaxClones : SubmitWithin(h, k, MaxStallMsgs)
       /\ UNCHANGED restVars
    \/ RoutingStep
    \/ \E ch \in Channels : StallChannelStep(ch)
    \/ \E ch \in Channels : ReplyStep(ch)
    \/ DeliveryStep

\* The executor runs every task that can make a step, and the kernel answers
\* every request on the control channel; whether it ever answers a request on
\* the shell channel is left open.
SpecStall ==
    /\ Init /\ [][NextStall]_vars
    /\ WF_vars(RoutingStep)
    /\ \A ch \in Channels : WF_vars(StallChannelStep(ch))
    /\ WF_vars(DeliveryStep)
    /\ WF_vars(ReplyStep("control"))

\* PdfStore: calls of open_pdf, their loads, the release of PdfItems.
InitPdfStore ==
    /\ InitPorts /\ CmdIdle /\ InitKernel /\ InitStdio /\ InitFields /\ LaunchIdle /\ DiscIdle
    /\ InitStore /\ ViewerIdle
SpecStore == InitPdfStore /\ [][NextStore]_vars

\* PdfViewer on a document of at least one page: the actions of the user and
\* the ends of the renders.
InitPdfViewer ==
    /\ InitPorts /\ CmdIdle /\ InitKernel /\ InitStdio /\ InitFields /\ LaunchIdle /\ DiscIdle
    /\ InitStore /\ InitViewer
SpecViewer == InitPdfViewer /\ [][NextViewer]_vars

\* A user who stops at some moment, and every render that was started ends.
SpecViewerFair == InitPdfViewer /\ [][NextViewerBrief]_vars /\ WF_vars(RenderStep)

SpecPorts == Init /\ [][NextPorts]_vars

InitCommand ==
    /\ InitPorts /\ InitCmd /\ InitKernel /\ InitStdio /\ InitFields /\ LaunchIdle /\ DiscIdle
    /\ PdfIdle
SpecCmd == InitCommand /\ [][NextCmd]_vars

\* One launch, from the return of peek_ports to the return of the async block.
SpecLaunch == InitLaunch /\ [][NextLaunch]_vars

\* One call of wsl_kernel_specifications.
InitDiscovery ==
    /\ InitPorts /\ CmdIdle /\ InitKernel /\ InitStdio /\ InitFields /\ LaunchIdle /\ InitDisc
    /\ PdfIdle
SpecDiscovery == InitDiscovery /\ [][NextDisc]_vars

(***************************************************************************)
(* Properties                                                              *)
(***************************************************************************)
IsPrefix(a, b) == Len(a) <= Len(b) /\ a = SubSeq(b, 1, Len(a))

StrictlyIncreasing(a) == \A i, j \in 1..Len(a) : i < j => a[i] < a[j]

Elems(a) == {a[i] : i \in 1..Len(a)}

NoReports == \A m \in ReportMsgs : reports[m] = 0

\* the content variants of each class
KindsOf(ch) == IF ch = "control" THEN ControlKinds ELSE Kinds \ ControlKinds

\* the ids of the accepted messages of a class, in the order of submission
ClassIds(ch) ==
    SelectSeq([i \in 1..Len(submitted) |-> i],
              LAMBDA i : submitted[i] \in KindsOf(ch))

\* the messages the routing task has taken from the outbound queue and is
\* done with
RoutingDoneWith ==
    ((1..Len(submitted)) \ Elems(requestQ))
        \ (IF routing.pc = "send" THEN {routing.msg} ELSE {})

\* the reply a channel task has read and not yet forwarded
ReplyInHand(ch) ==
    IF chanTask[ch].pc = "fwd" THEN <<chanTask[ch].msg>> ELSE <<>>

\* C1: whenever peek_ports returns Ok(ports), the five ports (stdin, control,
\* heartbeat, shell, iopub) are pairwise distinct, whatever free port the OS
\* hands out at each bind to port 0.
C1_PortsPairwiseDistinct ==
    peekPc = "ok" =>
        \A i, j \in 1..NumPorts : i # j => ports[i] # ports[j]

\* C2 as stated: every message the routing task took is forwarded to exactly
\* one channel, the control channel for Debug/Interrupt/ShutdownRequest and
\* the shell channel for every other variant, and neither socket carries a
\* message of the other class.
C2_ForwardedToExactlyOne ==
    /\ \A m \in RoutingDoneWith :
          Cardinality({ch \in Channels : m \in Elems(forwards[ch])}) = 1
    /\ \A ch \in Channels :
          /\ \A m \in Elems(forwards[ch]) : submitted[m] \in KindsOf(ch)
          /\ \A m \in Elems(sockLog[ch]) : submitted[m] \in KindsOf(ch)

\* C2 amended: a message is forwarded at most once and only to the channel of
\* its class, and a socket carries only messages forwarded to its channel; the
\* routing task forwards every message it took, except the one whose channel
\* task had already ended with an error: that message is forwarded to neither
\* channel and the routing task ends with an error.
C2_ForwardedToOwnChannel ==
    /\ \A ch \in Channels :
          /\ \A m \in Elems(forwards[ch]) : submitted[m] \in KindsOf(ch)
          /\ StrictlyIncreasing(forwards[ch])
          /\ Elems(sockLog[ch]) \subseteq Elems(forwards[ch])
    /\ \A m \in RoutingDoneWith :
          \/ \E ch \in Channels : m \in Elems(forwards[ch])
          \/ /\ routing = [pc |-> "failed", msg |-> m]
             /\ \E ch \in Channels :
                   submitted[m] \in KindsOf(ch) /\ chanTask[ch].pc = "failed"

C2_Witness ==
    /\ \E m \in Elems(sockLog["control"]) : submitted[m] = "ShutdownRequest"
    /\ \E m \in Elems(sockLog["shell"]) : submitted[m] = "KernelInfoRequest"
    /\ Elems(requestQ) = {}
    /\ routing.pc = "recv"

\* C3 as stated: per channel, route receives the replies in the order of the
\* requests and every reply read from the socket is delivered: it was handed
\* to route or is still on its way to the delivery task.
C3_EveryReplyRouted ==
    \A ch \in Channels :
        /\ StrictlyIncreasing(routed[ch])
        /\ replies[ch] = (routed[ch] \o replyQ[ch]) \o ReplyInHand(ch)

\* C3 amended: per channel, the requests are written, the replies read and
\* the replies handed to route in the order of submission, none twice and none
\* skipped; a reply is not handed to route only when the delivery task takes
\* it after the window of the session has gone, and then it is dropped.
C3_RepliesInOrder ==
    \A ch \in Channels :
        /\ replies[ch] =
              ((routed[ch] \o lostDeliveries[ch]) \o replyQ[ch]) \o ReplyInHand(ch)
        /\ IsPrefix(replies[ch], sockLog[ch])
        /\ IsPrefix(sockLog[ch], ClassIds(ch))
        /\ lostDeliveries[ch] # <<>> => ~windowOpen

C3_Witness ==
    \E ch \in Channels :
        /\ Len(routed[ch]) = 2
        /\ routed[ch] = ClassIds(ch)

\* C8: once force_shutdown was called the queue is closed, and in every later
\* step no send on any sender handle is accepted and the sockets carry only
\* messages accepted before the call.
C8_QueueClosedForAllSenders ==
    /\ [](ShutdownCalled => queueClosed)
    /\ [][ShutdownCalled =>
            /\ submitted' = submitted
            /\ \A ch \in Channels : \A i \in 1..Len(sockLog'[ch]) :
                  sockLog'[ch][i] <= Len(submitted)]_vars

C8_Witness ==
    /\ ShutdownCalled
    /\ Len(clones) >= 1 /\ clones[1] = "before"
    /\ 1 \in rejected
    /\ \E ch \in Channels : sockLog[ch] # <<>>

\* the calls of kernel_errored the process-exit monitor makes
ProcessReports ==
    [m \in {StatusMsg(st) : st \in {"exitedFail", "killed", "exitedOk"}}
            \cup {WaitErrorMsg} |-> reports[m]]

\* C4 as stated: once the child has exited by itself with a failure status and
\* force_shutdown has not been called, the monitor reports it: it has reported,
\* or it is still there to report.
C4_FailureExitIsReported ==
    (proc = "exitedFail" /\ ~ShutdownCalled) =>
        \/ monitor = "waiting"
        \/ monitor = "done" /\ ~NoReports

\* C4 amended: a monitor that observes the exit before it is cancelled (by
\* force_shutdown or by the drop of the kernel) calls kernel_errored once, with
\* the message of the exit status when the status is not success, or with the
\* message of the wait error; a success status is not reported.
C4_MonitorReportsFailure ==
    monitor = "done" =>
        IF reports[WaitErrorMsg] > 0
        THEN reports = [m \in ReportMsgs |-> IF m = WaitErrorMsg THEN 1 ELSE 0]
        ELSE /\ proc \in {"exitedOk", "exitedFail"}
             /\ reports = [m \in ReportMsgs |->
                    IF proc = "exitedFail"
                        /\ m = "kernel process exited with status: failure"
                    THEN 1 ELSE 0]

C4_Witness ==
    /\ monitor = "done"
    /\ proc = "exitedFail"
    /\ ~ShutdownCalled
    /\ reports["kernel process exited with status: failure"] = 1

\* C5: in every step taken after force_shutdown was called, the process-exit
\* monitor makes no call of kernel_errored, whether the child exits with
\* success, with a failure or by the kill.
C5_NoExitReportAfterShutdown ==
    [][ShutdownCalled => ProcessReports' = ProcessReports]_vars

C5_Witness ==
    /\ ShutdownCalled
    /\ proc = "killed"
    /\ monitor = "cancelled"
    /\ NoReports

\* C6: a second (or later) call of force_shutdown does not panic, makes no call
\* of kernel_errored, leaves the queue closed and the monitor as it was, and
\* leaves a process that has ended as it was.
C6_SecondShutdownChangesNothing ==
    [][(ShutdownCalled /\ shutdownCalls' = shutdownCalls + 1) =>
          /\ ~panicked'
          /\ reports' = reports
          /\ queueClosed /\ queueClosed'
          /\ monitor' = monitor
          /\ (proc # "running" => proc' = proc)
          /\ proc' # "running" \/ "kill" \in faults]_vars

C6_Witness ==
    /\ shutdownCalls = 2
    /\ queueClosed
    /\ proc = "killed"
    /\ monitor = "cancelled"
    /\ NoReports
    /\ ~panicked

C9_DropDoesAllThree ==
    (kernelDropped /\ ~ShutdownCalled) =>
        /\ ~panicked
        /\ dropSteps.remove # "none" /\ dropSteps.close # "none"
            /\ dropSteps.kill # "none"
        /\ queueClosed
        /\ dropSteps.remove = "ok" => ~fileExists
        /\ dropSteps.kill = "ok" => proc # "running"

C9_Witness ==
    /\ kernelDropped
    /\ ~ShutdownCalled
    /\ dropSteps.remove = "err"
    /\ fileExists
    /\ queueClosed
    /\ proc = "killed"

\* C10: in the spawned command every argv argument that is the placeholder is
\* replaced by the translated connection path, every other argument is passed
\* unchanged and in order, and no argument of the command contains the text
\* {connection_file}.
C10_NoPlaceholderRemains ==
    cmdPc = "built" =>
        /\ Len(SpawnedArgv) = Len(argv)
        /\ \A i \in 1..Len(argv) :
              SpawnedArgv[i] =
                  IF argv[i] = <<Placeholder>> THEN WslConnectionPath ELSE argv[i]
        /\ \A j \in 1..Len(cmd) : ~HasPlaceholder(cmd[j])

(***************************************************************************)
(* Launch failures, the shape of the command, discovery                    *)
(***************************************************************************)
TranslationFailures == {"runErr", "nonSuccess"}

\* C11: when the translation of the working directory fails (the helper cannot
\* be run, or exits with a non-success status), the launch goes on: the working
\* directory is None, the command carries no --cd argument, and the launch can
\* only end in an error through a later failure of the spawn or of a connect.
C11_WdFailureIsNotFatal ==
    outcome["wd"] \in TranslationFailures =>
        /\ wslWd = None
        /\ \A i \in 1..Len(cmd) : cmd[i] # <<"--cd">>
        /\ launchPc # "wd"
        /\ launchPc = "err" =>
              \/ outcome["spawn"] = "err"
              \/ \E s \in SocketNames : outcome[s] = "err"

\* the working directory could not be translated, and the kernel was spawned
\* with a command without --cd, connected on all three sockets and returned
C11_Witness ==
    /\ outcome["wd"] \in TranslationFailures
    /\ launchPc = "ok"
    /\ proc = "running"
    /\ \A s \in SocketNames : sockets[s] = "open"
    /\ cmdPc = "built"

\* C12: when the translation of the connection-descriptor path fails, the
\* launch has returned an error, no kernel process was spawned, no connection
\* was attempted or opened and no task was started.
C12_ConnectionPathFailureIsFatal ==
    outcome["wslpath"] \in TranslationFailures =>
        /\ launchPc = "err"
        /\ proc = "none"
        /\ \A s \in SocketNames : sockets[s] = "none" /\ attempts[s] = 0
        /\ started = {}
        /\ cmd = <<>>

\* the helper ran and exited with a non-success status, after the connection
\* file was written
C12_Witness ==
    /\ outcome["wslpath"] = "nonSuccess"
    /\ outcome["write"] = "ok"
    /\ launchPc = "err"

\* C13: a launch whose kernelspec argv is empty never gets past the ensure!:
\* it is still before it or has returned an error, and it has spawned no
\* process, opened no connection and started no task.
C13_EmptyArgvIsFatal ==
    argv = <<>> =>
        /\ launchPc \in {"ports", "mkdir", "write", "wslpath", "ensure", "err"}
        /\ proc = "none"
        /\ \A s \in SocketNames : sockets[s] = "none" /\ attempts[s] = 0
        /\ started = {}
        /\ monitor = "none"

\* the empty argv reached the ensure! and made the launch return an error
C13_Witness ==
    /\ argv = <<>>
    /\ outcome["wslpath"] = "ok"
    /\ launchPc = "err"

\* C14: when the connect of the iopub, shell or control socket fails, the
\* launch has returned an error after that single attempt, the spawned process
\* was killed, no connection is left open, and no task (router, supervisor,
\* process monitor or other) is running.
C14_ConnectFailureTearsDown ==
    \A s \in SocketNames :
        outcome[s] = "err" =>
            /\ launchPc = "err"
            /\ attempts[s] = 1
            /\ \A t \in SocketNames : attempts[t] <= 1 /\ sockets[t] # "open"
            /\ proc = "killed"
            /\ started = {}
            /\ monitor = "none"

\* the control connect failed after the iopub and shell connections were open
C14_Witness ==
    /\ outcome["control"] = "err"
    /\ sockets["iopub"] = "closed"
    /\ sockets["shell"] = "closed"
    /\ proc = "killed"

\* the arguments the kernelspec argv contributes: the connection path where
\* the argument is the placeholder, the argument itself elsewhere
ExpectedArgvPart ==
    [i \in 1..Len(argv) |->
        IF argv[i] = <<Placeholder>> THEN WslConnectionPath ELSE argv[i]]

\* C15: the arguments of the spawned wsl command are -d <distro>, then
\* --cd <dir> exactly when the working directory was translated, then --exec,
\* then `env` and one K=V per declared variable exactly when the kernelspec
\* declares an environment, then the argv in its order.
C15_CommandShape ==
    cmdPc = "built" =>
        \E kvs \in (IF specEnv = None
                    THEN {<<>>}
                    ELSE {<<<<"env">>>> \o o : o \in EnvArgOrders(specEnv[1])}) :
            cmd = <<<<"-d">>, Distro>>
                    \o (IF wslWd = None THEN <<>> ELSE <<<<"--cd">>, wslWd[1]>>)
                    \o <<<<"--exec">>>>
                    \o kvs
                    \o ExpectedArgvPart

\* a command with a working directory, two environment variables and three
\* arguments, one of them the placeholder
C15_Witness ==
    /\ cmdPc = "built"
    /\ wslWd # None
    /\ specEnv # None
    /\ Cardinality(specEnv[1]) = 2
    /\ Len(argv) = 3
    /\ \E i \in 1..Len(argv) : argv[i] = <<Placeholder>>

\* C16: wsl_kernel_specifications never returns an error; when the
\* enumeration `wsl -l -q` cannot be run or exits with a non-success status,
\* it has returned Ok of the empty list and started no kernelspec query.
C16_EnumerationFailureGivesEmptyList ==
    /\ discResult # "Err"
    /\ enumerated \in {"runErr", "nonSuccess"} =>
          /\ discPc = "done"
          /\ discResult = Some(<<>>)
          /\ queries = <<>>

\* the enumeration exited with a non-success status and the call returned
C16_Witness ==
    /\ enumerated = "nonSuccess"
    /\ discPc = "done"
    /\ discResult # None

\* the distros whose kernelspec query ran, exited successfully and printed a
\* parseable response
SucceededQueries == {i \in 1..Len(distros) : queries[i].pc = "ok"}

\* C17: when the enumeration succeeded, the returned list is Ok and holds,
\* once each, exactly the kernelspecs of the distros whose query succeeded,
\* each tagged with its own distro; a failed query contributes nothing and
\* takes nothing away.
C17_ResultIsUnionOfSucceededQueries ==
    (discPc = "done" /\ enumerated = "ok") =>
        /\ discResult # "Err"
        /\ discResult # None
        /\ LET r == discResult[1] IN
             /\ Elems(r) = {WslRemote(n, distros[i]) :
                              <<i, n>> \in {p \in SucceededQueries \X KernelNames :
                                              p[2] \in queries[p[1]].names}}
             /\ \A a, b \in 1..Len(r) : a # b => r[a] # r[b]

\* three distros, the query of one of them exits with a non-success status,
\* the other two contribute their kernelspecs
C17_Witness ==
    /\ discPc = "done"
    /\ Len(distros) = 3
    /\ \E i \in 1..3 :
          /\ queries[i].pc = "nonSuccess"
          /\ \A j \in (1..3) \ {i} : queries[j].pc = "ok" /\ queries[j].names # {}
    /\ Len(discResult[1]) > 0

(***************************************************************************)
(* Backpressure, socket failures, the inbound stream                       *)
(***************************************************************************)
\* the number of messages the routing task has taken from the outbound queue
TakenByRouter == Len(submitted) - Len(requestQ)

C19_WriteFailureEndsTask ==
    \A ch \in Channels :
        chanTask[ch].pc \in {"read", "fwd"} => chanTask[ch].wrote

\* C20: every call of the session's route entry point is made by the delivery
\* task with a message it took from the inbound stream that merges the reply
\* channels; in particular no iopub message reaches route on another path.
C20_RouteOnlyThroughInboundStream ==
    [][(routed' # routed \/ lostDeliveries' # lostDeliveries) =>
          \E ch \in Channels : Deliver(ch)]_vars

(***************************************************************************)
(* Request/reply alternation, independence of the channels, success exit,  *)
(* order of the launch                                                     *)
(***************************************************************************)
\* the replies of a channel that were forwarded into its reply stream
ForwardedReplies(ch) == (routed[ch] \o lostDeliveries[ch]) \o replyQ[ch]

\* C22: on each of the control and shell sockets at most one request is
\* outstanding: a request is written only when every request written before
\* has had its reply read and forwarded, and while the task reads, the one
\* request without a reply is the one it has just written.
C22_OneOutstandingRequest ==
    \A ch \in Channels :
        /\ IsPrefix(replies[ch], sockLog[ch])
        /\ Len(sockLog[ch]) - Len(replies[ch]) \in {0, 1}
        /\ chanTask[ch].pc \in {"recv", "write"} =>
              /\ sockLog[ch] = replies[ch]
              /\ replies[ch] = ForwardedReplies(ch)
        /\ (chanTask[ch].pc = "read" /\ chanTask[ch].wrote) =>
              sockLog[ch] = Append(replies[ch], chanTask[ch].msg)

\* two requests went over the same socket, each followed by its reply
C22_Witness ==
    \E ch \in Channels :
        /\ Len(sockLog[ch]) = 2
        /\ replies[ch] = sockLog[ch]
        /\ chanTask[ch].pc = "recv"

\* the other request/reply channel
OtherChannel(ch) == IF ch = "control" THEN "shell" ELSE "control"

\* C23: after the task of one request/reply channel has ended with an error,
\* the rest keeps working while the queue is open: the routing task is still
\* there to forward what is submitted to the surviving channel, whatever was
\* submitted for the failed channel in between.
C23_SurvivingChannelKeepsWorking ==
    \A ch \in Channels :
        (/\ chanTask[ch].pc = "failed"
         /\ ~Ended(chanTask[OtherChannel(ch)].pc)
         /\ ~queueClosed) => ~ReceiverDropped

\* the reports of the process-exit monitor that carry an exit status
StatusReports ==
    [m \in {StatusMsg(st) : st \in {"exitedFail", "killed", "exitedOk"}} |-> reports[m]]

\* C26: an exit of the child with a success status never makes the monitor
\* call kernel_errored: no report with a success status exists, and while the
\* child has exited with success no step adds a report with an exit status,
\* before and after force_shutdown.
C26_SuccessExitIsNotReported ==
    /\ [](reports[StatusMsg("exitedOk")] = 0)
    /\ [][proc = "exitedOk" => StatusReports' = StatusReports]_vars

\* the monitor saw the success exit and ended without a report
C26_Witness ==
    /\ proc = "exitedOk"
    /\ monitor = "done"
    /\ NoReports

\* the steps of the launch the claim orders, in that order
OrderedSteps == <<"ports", "write", "wslpath", "spawn", "iopub", "shell", "control">>

\* C30: the steps of a launch happen in the order ports, descriptor file,
\* path translation, spawn, iopub, shell and control connect, task start, and
\* a step is only tried when every step before it succeeded; the child exists
\* only after the descriptor file was written, and the tasks only after all
\* three connections are open.
C30_LaunchStepsInOrder ==
    /\ \A i, j \in 1..Len(OrderedSteps) :
          (i < j /\ outcome[OrderedSteps[j]] # "none") => outcome[OrderedSteps[i]] = "ok"
    /\ proc # "none" => (fileExists /\ outcome["write"] = "ok" /\ outcome["wslpath"] = "ok")
    /\ \A s \in SocketNames : sockets[s] # "none" => proc # "none"
    /\ started # {} =>
          /\ \A s \in SocketNames : sockets[s] = "open"
          /\ proc = "running"
          /\ started = LaunchedTasks

\* a launch that went through all steps
C30_Witness ==
    /\ launchPc = "ok"
    /\ started = LaunchedTasks
    /\ \A i \in 1..Len(OrderedSteps) : outcome[OrderedSteps[i]] = "ok"

(***************************************************************************)
(* Failed deliveries, the supervisor                                       *)
(***************************************************************************)
\* the deliveries that failed so far, of all origins
LostCount ==
    Len(lostDeliveries["control"]) + Len(lostDeliveries["shell"])
        + Len(lostDeliveries["iopub"])

\* C21: a step in which the delivery of a message to the session fails ends
\* no task and reports nothing: the iopub task, the channel tasks and the
\* routing task are where they were, kernel_errored is not called, and the
\* supervisor sees no task end; the message is dropped and the next one can
\* be taken.
C21_FailedDeliveryEndsNothing ==
    [][lostDeliveries' # lostDeliveries =>
          /\ iopubTask' = iopubTask
          /\ chanTask' = chanTask
          /\ routing' = routing
          /\ reports' = reports
          /\ supervised' = supervised
          /\ \A ch \in Channels :
                lostDeliveries'[ch] # lostDeliveries[ch] => replyQ'[ch] = Tail(replyQ[ch])]_vars

\* the delivery task failed to deliver a reply and then took the next one;
\* the iopub task failed to deliver a message and still reads; nothing was
\* reported
C21_Witness ==
    /\ \E ch \in Channels : Len(lostDeliveries[ch]) + Len(routed[ch]) = 2
                              /\ lostDeliveries[ch] # <<>>
    /\ lostDeliveries["iopub"] # <<>>
    /\ iopubTask = "loop"
    /\ NoReports
    /\ LostCount = 3

\* C24: kernel_errored was called with the message naming a supervised task
\* exactly once if the supervisor has seen that task end with an error, and
\* not at all otherwise: not before the task ended, not for a task that ended
\* without error, not a second time. The supervisor has only seen tasks that
\* ended, so it ends only after all four have.
C24_SupervisorReportsEachFailureOnce ==
    /\ \A name \in TaskNames :
          reports[TaskFailureMsg(name)] =
              IF name \in supervised /\ TaskPc(name) = "failed" THEN 1 ELSE 0
    /\ \A name \in supervised : Ended(TaskPc(name))
    /\ SupervisorEnded => \A name \in TaskNames : Ended(TaskPc(name))
    /\ \A m \in ReportMsgs \ {TaskFailureMsg(name) : name \in TaskNames} : reports[m] = 0

\* the supervisor has ended after two tasks failed, one after the other, and
\* two ended without error: two reports, one for each failure
C24_Witness ==
    /\ SupervisorEnded
    /\ reports[TaskFailureMsg("iopub task")] = 1
    /\ reports[TaskFailureMsg("shell task")] = 1
    /\ reports[TaskFailureMsg("control task")] = 0
    /\ reports[TaskFailureMsg("routing task")] = 0

\* every task of the session has ended: the four supervised tasks, the
\* delivery task and the supervisor
AllTasksEnded ==
    /\ \A name \in TaskNames : Ended(TaskPc(name))
    /\ DeliveryEnded
    /\ SupervisorEnded

\* C25: after force_shutdown the routing, shell, control and iopub tasks, the
\* delivery task and the supervisor all eventually end, whatever the state of
\* the session at the call.
C25_TasksTerminateAfterShutdown == ShutdownCalled ~> AllTasksEnded

(***************************************************************************)
(* The stdio drain tasks, execution_state and kernel_info                  *)
(***************************************************************************)
\* C27: each drain task keeps reading its pipe until the end of the stream: a
\* drain task that has ended has seen end of file, that is, the process has
\* ended and every line it wrote has been read. While the process is alive
\* both drain tasks are reading.
C27_DrainsUntilEof ==
    \A s \in Streams : drain[s] = "done" => PipeAtEof(s)

\* C28: kernel_info is None after the launch and, once it is Some, it keeps
\* its value in every later step, further calls of set_kernel_info included.
C28_KernelInfoSetAtMostOnce ==
    /\ kernelInfo = None
    /\ [][kernelInfo # None => kernelInfo' = kernelInfo]_vars

\* C29: execution_state is Idle and kernel_info is None after the launch. A
\* step that changes execution_state is a call of set_execution_state, a step
\* that changes kernel_info is a call of set_kernel_info, and such a step is
\* no step of a background task: the queues, the tasks, the supervisor, the
\* monitor, the process and the pipes are where they were. A call of
\* force_shutdown changes neither field.
C29_OnlySettersWriteFields ==
    /\ executionState = "Idle"
    /\ kernelInfo = None
    /\ [][/\ executionState' # executionState =>
                /\ \E state \in ExecutionStates : SetExecutionState(state)
                /\ UNCHANGED <<kernelVars, stdioVars>>
          /\ kernelInfo' # kernelInfo =>
                /\ \E info \in KernelInfoReplies : SetKernelInfo(info)
                /\ UNCHANGED <<kernelVars, stdioVars>>
          /\ shutdownCalls' # shutdownCalls => UNCHANGED fieldVars]_vars

\* the consumer has set both fields; replies and an iopub message were
\* delivered, the supervisor has seen a task end, a drain task has ended and
\* force_shutdown was called: both fields hold what the consumer set
C29_Witness ==
    /\ executionState = "Busy"
    /\ kernelInfo = Some(2)
    /\ ShutdownCalled
    /\ \E ch \in Channels : routed[ch] # <<>>
    /\ routed["iopub"] # <<>>
    /\ supervised # {}
    /\ drain["stderr"] = "done"
    /\ logged["stderr"] = 1

(***************************************************************************)
(* A stalled channel, the connection file of a failed launch, reports      *)
(* after force_shutdown, the orderly close                                 *)
(***************************************************************************)
\* C31: every control-class request the outbound queue accepted is eventually
\* written to the control socket, also when the kernel never answers a request
\* on the shell channel, however many shell-class messages were accepted
\* before it.
C31_ControlNotBlockedByShell ==
    \A i \in 1..MaxStallMsgs :
        (i <= Len(submitted) /\ submitted[i] \in ControlKinds)
            ~> (i \in Elems(sockLog["control"]))

\* C32: a launch that has returned an error has left no connection file on
\* disk, at whichever step after the write of the file it failed.
C32_FailedLaunchLeavesNoFile ==
    launchPc = "err" => ~fileExists

\* C33: once force_shutdown was called, kernel_errored is not called any more,
\* whatever task ends with an error afterwards.
C33_NoReportAfterShutdown ==
    [][ShutdownCalled => reports' = reports]_vars

\* no socket operation of the shell or control task has failed: neither task
\* ended on a failed read, and neither waits for the reply to a request whose
\* write failed
NoSocketFailed ==
    \A ch \in Channels :
        /\ chanTask[ch].pc # "failed"
        /\ chanTask[ch].pc \in {"read", "fwd"} => chanTask[ch].wrote

\* the accepted messages of the class of a channel, in the order of acceptance
AcceptedFor(ch) ==
    SelectSeq([i \in 1..Len(submitted) |-> i], LAMBDA i : Route(submitted[i]) = ch)

\* C34: when the outbound queue is closed and no socket has failed, the routing
\* task does not end with an error, and when it has ended it has forwarded
\* every message the queue had accepted, each to its channel and in order; a
\* shell or control task that has ended has ended after the routing task,
\* without error, having written every request forwarded to it and passed on
\* its reply; and kernel_errored was called for none of the three tasks.
C34_OrderlyCloseDrainsQueue ==
    (queueClosed /\ NoSocketFailed) =>
        /\ routing.pc # "failed"
        /\ routing.pc = "done" =>
              /\ requestQ = <<>>
              /\ \A ch \in Channels : forwards[ch] = AcceptedFor(ch)
        /\ \A ch \in Channels :
              chanTask[ch].pc = "done" =>
                  /\ routing.pc = "done"
                  /\ chanQ[ch] = <<>>
                  /\ sockLog[ch] = forwards[ch]
                  /\ replies[ch] = forwards[ch]
        /\ \A name \in {"routing task", "shell task", "control task"} :
              reports[TaskFailureMsg(name)] = 0

\* force_shutdown closed the queue while two accepted messages, one of each
\* class, had not been written yet; the routing task forwarded both and ended,
\* and the control and shell tasks wrote them, passed on the replies and ended
C34_Witness ==
    /\ ShutdownCalled
    /\ NoSocketFailed
    /\ Len(submitted) = 2
    /\ routing.pc = "done"
    /\ \A ch \in Channels :
          /\ chanTask[ch].pc = "done"
          /\ Len(sockLog[ch]) = 1
          /\ replies[ch] = sockLog[ch]
    /\ {"routing task", "shell task", "control task"} \subseteq supervised
    /\ NoReports

\* the PdfItems of a path that are alive
LiveItems(path) ==
    {id \in 1..Len(pdfItems) : pdfItems[id].path = path /\ pdfItems[id].alive}

\* C35: at most one live PdfItem exists per path, pdfs_by_path maps the path to
\* it, and the calls of open_pdf on the path that have resolved to an item
\* that is alive have resolved to the same item, however the calls and their
\* loads are interleaved
C35_OneLiveItemPerPath ==
    \A path \in PdfPaths :
        /\ Cardinality(LiveItems(path)) <= 1
        /\ \A id \in LiveItems(path) : pdfs_by_path[path] = Some(id)
        /\ \A c, d \in 1..Len(openCalls) :
              (/\ openCalls[c].path = path
               /\ openCalls[d].path = path
               /\ openCalls[c].pc = "ok"
               /\ openCalls[d].pc = "ok"
               /\ openCalls[c].result \in LiveItems(path)
               /\ openCalls[d].result \in LiveItems(path))
              => openCalls[c].result = openCalls[d].result

\* C36: a step that puts a render into page_cache is the end of a render whose
\* generation is render_generation; and every entry of page_cache was rendered
\* at the zoom_level of now
C36_CacheOnlyCurrentGeneration ==
    /\ [](\A p \in PageKeys : Cached(viewer, p) => viewer.page_cache[p] = Some(viewer.zoom_level))
    /\ [][\A p \in PageKeys :
            (Cached(viewer', p) /\ viewer'.page_cache[p] # viewer.page_cache[p]) =>
                \E r \in renders \ renders' :
                    /\ r.page = p
                    /\ r.generation = viewer.render_generation
                    /\ viewer'.render_generation = viewer.render_generation]_vars

\* the zoom was changed while a render of page 0 at the old zoom level was in
\* flight; it still is, and page 0 is in the cache from a render of the new
\* generation
C36_Witness ==
    /\ viewer.render_generation = 1
    /\ viewer.zoom_level # 0
    /\ \E r \in renders : r.page = 0 /\ r.generation = 0 /\ r.scale_factor = 0
    /\ viewer.page_cache[0] = Some(viewer.zoom_level)

\* C37: current_page is an index of a page of the document, whatever the user
\* has done to turn pages and to change the view mode
C37_CurrentPageValid ==
    pageCount >= 1 => viewer.current_page \in 0..(pageCount - 1)

\* two pages side by side, turned forward by two to the last page of a
\* document of three pages, from where next_page has nowhere to go
C37_Witness ==
    /\ pageCount = 3
    /\ viewer.view_mode = "DualPage"
    /\ viewer.current_page = 2
    /\ viewer.visible_pages = <<2>>

\* the renders in flight of a page that were started at the current generation
CurrentRenders(p) ==
    {r \in renders : r.page = p /\ r.generation = viewer.render_generation}

\* C39: loading_pages holds a page exactly when a render of the page at the
\* current generation is in flight, and there is at most one such render
C39_LoadingPagesTracksRenders ==
    \A p \in PageKeys :
        /\ Cardinality(CurrentRenders(p)) <= 1
        /\ Loading(viewer, p) <=> CurrentRenders(p) # {}

Settled ==
    /\ renders = {}
    /\ \A p \in PageKeys : ~Loading(viewer, p)
    /\ viewer.is_loading <=>
          \E i \in 1..Len(viewer.visible_pages) : ~Cached(viewer, viewer.visible_pages[i])

====
